---------------------------- MODULE Spec2Model ----------------------------
(***************************************************************************)
(* Road-network segmentation and spatial block index of Carla-Monitoring:  *)
(* InfrastructureRasterizer (scenario_rasterizer/infrastructure_rasterizer *)
(* .py), ScenarioSegment (scenario_rasterizer/scenario_segment.py),        *)
(* DataCriticalSection (carla_data_classes/DataCriticalSection.py) and the *)
(* contact-point and static-block functions of MapHelper                   *)
(* (carla_helpers/map_helper.py).                                          *)
(*                                                                         *)
(* The lane graph of ad_map_access (lanes, their types, edges and contact  *)
(* lanes) is the input; it is drawn in Init from a bounded family and is   *)
(* never changed by the rasterizer.                                        *)
(***************************************************************************)
EXTENDS Integers, Sequences, FiniteSets, TLC

VARIABLES
    laneType,          \* ad.map.lane.getLane(id).type
    contactLanes,      \* ad.map.lane.getLane(id).contactLanes (a list)
    layout,            \* which edge geometry the lanes have
    pc,                \* position of the analyze call: "idle" | "loop"
    lanes_to_analyze,  \* __analyze_map: the frontier set
    analyzed_lanes,    \* __analyze_map: the visited set
    segments,          \* __analyze_map: the local list of segments
    scenario_blocks,   \* self.__scenario_blocks (None until the first return)
    last_call,         \* the most recent call on the rasterizer and its outcome
    lane_pair,         \* the two DataLane objects a critical section is built for
    sections,          \* the critical sections built for the pair, by argument order
    helper_call,       \* the most recent call of get_intersect / get_contact_point_for_lanes
    static_block,      \* get_data_static_block_for_block: its lanes, loop position and list
    executor,          \* get_static_map_information: its position, its futures and lists
    noise_gen,         \* normal_noise_generator: the actors and the call made on them
    block_query,       \* get_actors_in_block: the call and its outcome
    stopped_test       \* VehicleStoppedTest: its fields and what the last tick did

vars == <<laneType, contactLanes, layout, pc, lanes_to_analyze, analyzed_lanes,
          segments, scenario_blocks, last_call, lane_pair, sections, helper_call,
          static_block, executor, noise_gen, block_query, stopped_test>>

graphVars == <<laneType, contactLanes, layout>>

rasterizerVars == <<pc, lanes_to_analyze, analyzed_lanes, segments, scenario_blocks, last_call>>

helperVars == <<helper_call, static_block>>

sectionVars == <<lane_pair, sections, helper_call, static_block>>

\* the state of the components that use neither the rasterizer nor the geometry
componentVars == <<executor, noise_gen, block_query, stopped_test>>

\* the state of the rasterizer, its map and the geometry helpers
baseVars == <<graphVars, rasterizerVars, sectionVars>>

---------------------------------------------------------------------------
(* Bounds of the model *)

\* the lane graphs of Spec have at most MaxContacts contact relations
MaxContacts == 3

\* the lane graphs of SpecGeo have at most MaxGeoContacts contact relations
MaxGeoContacts == 2

\* the lane graphs of SpecQuery have at most MaxQueryContacts contact relations
MaxQueryContacts == 1

\* ad.map.lane.getLanes(): the lane ids of the map, a list
getLanes == <<1, 2, 3>>

LaneIds == {getLanes[i] : i \in 1..Len(getLanes)}

---------------------------------------------------------------------------
(* Lane types and contact relations (ad_map_access enums) *)

CONTINUATION_TYPES == {"NORMAL", "EMERGENCY", "MULTI", "OVERTAKING"}

DRIVEABLE_LANE_TYPES == {"NORMAL", "EMERGENCY", "MULTI", "OVERTAKING", "TURN", "BIKE"}

\* the lane types the graphs of the model use
LaneTypes == {"NORMAL", "INTERSECTION", "SHOULDER"}

\* the three kinds of contact of the model's graphs: a continuation, a
\* successor/predecessor contact that is no continuation, an adjacency
ContactKinds == {"cont", "stop", "adj"}

ContactOf(from, to, kind) ==
    [toLane   |-> to,
     location |-> CASE kind = "adj" -> IF to > from
                                        THEN "LEFT"
                                        ELSE IF from - to = 1 THEN "RIGHT" ELSE "OVERLAP"
                    [] OTHER -> IF to > from THEN "SUCCESSOR" ELSE "PREDECESSOR",
     types    |-> CASE kind = "cont" -> {"LANE_CONTINUATION"}
                    [] kind = "stop" -> IF to > from THEN {"STOP"} ELSE {"YIELD", "LANE_END"}
                    [] OTHER -> {"LANE_CHANGE"}]

AllContacts == {c \in LaneIds \X LaneIds \X ContactKinds : c[1] # c[2]}

RECURSIVE ContactSets(_)
\* the sets of at most k contacts
ContactSets(k) ==
    IF k = 0 THEN {{}}
    ELSE LET P == ContactSets(k - 1)
         IN P \cup {s \cup {c} : s \in P, c \in AllContacts}

KindRank(k) == CASE k = "cont" -> 0 [] k = "stop" -> 1 [] OTHER -> 2

RECURSIVE ContactList(_, _)
\* the contact list of lane `from`: its contacts of C, ordered by target lane and kind
ContactList(from, C) ==
    LET mine == {c \in C : c[1] = from}
    IN IF mine = {} THEN <<>>
       ELSE LET c == CHOOSE x \in mine :
                        \A y \in mine : 3 * x[2] + KindRank(x[3]) <= 3 * y[2] + KindRank(y[3])
            IN <<ContactOf(c[1], c[2], c[3])>> \o ContactList(from, C \ {c})

---------------------------------------------------------------------------
(* Geometry: the edges of a lane as lists of geo points *)

GeoPoint(lat, lon, alt) == [latitude |-> lat, longitude |-> lon, altitude |-> alt]

Layouts == {"row", "bend", "stack"}

\* a fourth geometry, "mixed": the first lane is straight (as in "row"), the others
\* are bent (as in "bend")

\* lane.edgeLeft as geo points (ad.map.point.toGeo(lane.edgeLeft.ecefEdge))
EdgeLeft(l) ==
    CASE layout = "row"  -> <<GeoPoint(0, 3 * l, 0), GeoPoint(2, 3 * l + 1, 0), GeoPoint(4, 3 * l + 2, 0)>>
      [] layout = "bend" -> <<GeoPoint(l, 2 * l, l), GeoPoint(l + 1, 2 * l + 1, 0), GeoPoint(l + 3, 2 * l + 2, 1)>>
      [] layout = "mixed" ->
            IF l = 1 THEN <<GeoPoint(0, 3, 0), GeoPoint(2, 4, 0), GeoPoint(4, 5, 0)>>
            ELSE <<GeoPoint(l, 2 * l, l), GeoPoint(l + 1, 2 * l + 1, 0), GeoPoint(l + 3, 2 * l + 2, 1)>>
      [] OTHER           -> <<GeoPoint(0, 0, l), GeoPoint(1, 1, l)>>

\* lane.edgeRight as geo points
EdgeRight(l) ==
    CASE layout = "row"  -> <<GeoPoint(0, 3 * l + 1, 0), GeoPoint(2, 3 * l + 2, 0), GeoPoint(4, 3 * l + 3, 0)>>
      [] layout = "bend" -> <<GeoPoint(l - 1, 2 * l + 1, 0), GeoPoint(l, 2 * l + 2, 2), GeoPoint(l + 1, 2 * l + 3, 0)>>
      [] layout = "mixed" ->
            IF l = 1 THEN <<GeoPoint(0, 4, 0), GeoPoint(2, 5, 0), GeoPoint(4, 6, 0)>>
            ELSE <<GeoPoint(l - 1, 2 * l + 1, 0), GeoPoint(l, 2 * l + 2, 2), GeoPoint(l + 1, 2 * l + 3, 0)>>
      [] OTHER           -> <<GeoPoint(1, 0, l), GeoPoint(2, 1, l)>>

\* the extreme values a coordinate can take (Latitude.getMin() / getMax() and alike)
CoordMin == -1000

CoordMax == 1000

get_min_geo_point == GeoPoint(CoordMin, CoordMin, CoordMin)

get_max_geo_point == GeoPoint(CoordMax, CoordMax, CoordMax)

RECURSIVE EdgeMinFrom(_, _, _)
EdgeMinFrom(pts, i, acc) ==
    IF i > Len(pts) THEN acc
    ELSE LET p == pts[i]
         IN EdgeMinFrom(pts, i + 1,
                [latitude  |-> IF acc.latitude > p.latitude THEN p.latitude ELSE acc.latitude,
                 altitude  |-> IF acc.altitude > p.altitude THEN p.altitude ELSE acc.altitude,
                 longitude |-> IF acc.longitude > p.longitude THEN p.longitude ELSE acc.longitude])

calculate_Edge_Min(edge_geo_points) == EdgeMinFrom(edge_geo_points, 1, get_max_geo_point)

RECURSIVE EdgeMaxFrom(_, _, _)
EdgeMaxFrom(pts, i, acc) ==
    IF i > Len(pts) THEN acc
    ELSE LET p == pts[i]
         IN EdgeMaxFrom(pts, i + 1,
                [latitude  |-> IF acc.latitude < p.latitude THEN p.latitude ELSE acc.latitude,
                 altitude  |-> IF acc.altitude < p.altitude THEN p.altitude ELSE acc.altitude,
                 longitude |-> IF acc.longitude < p.longitude THEN p.longitude ELSE acc.longitude])

calulcate_edge_max(edge_geo_points) == EdgeMaxFrom(edge_geo_points, 1, get_min_geo_point)

\* (edge_min, edge_max) over both edges of the lane
calc_bounding_points(laneID) ==
    <<calculate_Edge_Min(EdgeLeft(laneID) \o EdgeRight(laneID)),
      calulcate_edge_max(EdgeLeft(laneID) \o EdgeRight(laneID))>>

calc_min_geo_point(that, other) ==
    [latitude  |-> IF that.latitude < other.latitude THEN that.latitude ELSE other.latitude,
     altitude  |-> IF that.altitude < other.altitude THEN that.altitude ELSE other.altitude,
     longitude |-> IF that.longitude < other.longitude THEN that.longitude ELSE other.longitude]

\* a faulty variant: the longitude of the other point is not taken
calc_max_geo_point_KeepLongitude(that, other) ==
    [latitude  |-> IF that.latitude > other.latitude THEN that.latitude ELSE other.latitude,
     altitude  |-> IF that.altitude > other.altitude THEN that.altitude ELSE other.altitude,
     longitude |-> that.longitude]

calc_max_geo_point(that, other) ==
    [latitude  |-> IF that.latitude > other.latitude THEN that.latitude ELSE other.latitude,
     altitude  |-> IF that.altitude > other.altitude THEN that.altitude ELSE other.altitude,
     longitude |-> IF that.longitude > other.longitude THEN that.longitude ELSE other.longitude]

\* the gradients dy/dx between consecutive points of an edge, as pairs <<dy, dx>>;
\* x is the east (longitude) and y the north (latitude) coordinate
Gradients(edge) ==
    [i \in 1..(Len(edge) - 1) |->
        <<edge[i + 1].latitude - edge[i].latitude, edge[i + 1].longitude - edge[i].longitude>>]

\* g1 < g2 for two gradients with positive dx
GradLess(g1, g2) == g1[1] * g2[2] < g2[1] * g1[2]

\* np.amin(g) and np.amax(g) differ
EdgeNotStraight(edge) ==
    LET g == Gradients(edge)
    IN /\ Len(g) > 1
       /\ \E i \in 1..Len(g), j \in 1..Len(g) : GradLess(g[i], g[j])

determine_lane_curvature(lane_id) ==
    EdgeNotStraight(EdgeLeft(lane_id)) \/ EdgeNotStraight(EdgeRight(lane_id))

---------------------------------------------------------------------------
(* InfrastructureRasterizer: the recursive analysis of one lane *)

check_existing_lane_id(lane_id, analyzed_lane_ids) == lane_id \in analyzed_lane_ids

add_lane_id(lane_id, id_set) == IF lane_id \in id_set THEN id_set ELSE id_set \cup {lane_id}

add_lane_ids(lane_ids, target_set) == target_set \cup {l \in lane_ids : l \notin target_set}

\* a faulty variant: the frontier is not reduced by the analyzed lanes
reduce_LaneID_Set_Unreduced(lane_set, lane_items) == lane_set

reduce_LaneID_Set(lane_set, lane_items) == {laneID \in lane_set : laneID \notin lane_items}

out_intersection(lane, contactLane) ==
    laneType[lane] = "INTERSECTION" /\ laneType[contactLane] # "INTERSECTION"

into_intersection(lane, contactLane) ==
    laneType[lane] # "INTERSECTION" /\ laneType[contactLane] = "INTERSECTION"

\* the guard of the successor/predecessor branch
IsContinuation(clane) ==
    /\ clane.location \in {"SUCCESSOR", "PREDECESSOR"}
    /\ "LANE_CONTINUATION" \in clane.types

\* the guard of the adjacent/overlapping branch
IsAdjacent(clane) == clane.location \in {"LEFT", "RIGHT", "OVERLAP"}

\* a faulty variant: only leaving an intersection starts a new block
IsBoundary_OnlyOut(laneID, clane) == out_intersection(laneID, clane.toLane)

\* the contact is a lane of a new block: it leaves or enters an intersection
IsBoundary(laneID, clane) ==
    out_intersection(laneID, clane.toLane) \/ into_intersection(laneID, clane.toLane)

\* the lane's own type lets a continuation stay in the road block
FollowsContinuation(laneID) == laneType[laneID] \in CONTINUATION_TYPES

\* lines 293-298: the result r of the recursive call is folded into the locals st
\* of a lane that continues into the analyzed lane
MergeContinuation(st, r) ==
    [min_pos |-> calc_min_geo_point(st.min_pos, r.min_pos),
     max_pos |-> calc_max_geo_point(st.max_pos, r.max_pos),
     curvature |-> st.curvature,
     block_lane_ids |-> add_lane_ids(r.block_lane_ids, st.block_lane_ids),
     to_analyze_lane_ids |-> st.to_analyze_lane_ids \cup
         {t \in r.to_analyze_lane_ids : t \notin r.analyzed_lane_ids},
     analyzed_lane_ids |-> r.analyzed_lane_ids,
     entered |-> st.entered \o r.entered]

\* lines 305-309: the same for an adjacent or overlapping lane
MergeAdjacent(st, r) ==
    [min_pos |-> calc_min_geo_point(st.min_pos, r.min_pos),
     max_pos |-> calc_max_geo_point(st.max_pos, r.max_pos),
     curvature |-> st.curvature \/ r.curvature,
     block_lane_ids |-> add_lane_ids(r.block_lane_ids, st.block_lane_ids),
     to_analyze_lane_ids |-> st.to_analyze_lane_ids \cup
         {t \in r.to_analyze_lane_ids : t \notin r.analyzed_lane_ids},
     analyzed_lane_ids |-> r.analyzed_lane_ids,
     entered |-> st.entered \o r.entered]

RECURSIVE analyze_lane(_, _)
RECURSIVE AnalyzeContacts(_, _, _)

\* the body of the loop over lane.contactLanes, from the i-th contact on; st holds
\* the locals min_pos, max_pos, curvature, block_lane_ids, to_analyze_lane_ids and
\* the shared set analyzed_lane_ids
AnalyzeContacts(laneID, i, st) ==
    IF i > Len(contactLanes[laneID]) THEN st
    ELSE
      LET clane == contactLanes[laneID][i]
          \* successor / predecessor
          st1 ==
            IF IsContinuation(clane)
            THEN IF IsBoundary(laneID, clane)
                 THEN [st EXCEPT !.to_analyze_lane_ids = add_lane_id(clane.toLane, @)]
                 ELSE IF FollowsContinuation(laneID)
                      THEN MergeContinuation(st, analyze_lane(clane.toLane, st.analyzed_lane_ids))
                      ELSE st
            ELSE st
          \* left / right / overlap
          st2 ==
            IF IsAdjacent(clane)
            THEN MergeAdjacent(st1, analyze_lane(clane.toLane, st1.analyzed_lane_ids))
            ELSE st1
      IN AnalyzeContacts(laneID, i + 1,
            IF check_existing_lane_id(clane.toLane, st.analyzed_lane_ids) THEN st ELSE st2)

\* __analyze_lane(laneID, analyzed_lane_ids): the result tuple, the updated shared
\* set analyzed_lane_ids, and the lanes entered (in order)
analyze_lane(laneID, analyzed_lane_ids) ==
    LET bp == calc_bounding_points(laneID)
    IN AnalyzeContacts(laneID, 1,
          [min_pos |-> bp[1],
           max_pos |-> bp[2],
           curvature |-> IF laneType[laneID] \in DRIVEABLE_LANE_TYPES
                         THEN determine_lane_curvature(laneID) ELSE FALSE,
           block_lane_ids |-> add_lane_id(laneID, {}),
           to_analyze_lane_ids |-> {},
           analyzed_lane_ids |-> add_lane_id(laneID, analyzed_lane_ids),
           entered |-> <<laneID>>])

---------------------------------------------------------------------------
(* ScenarioSegment *)

RECURSIVE SortedSeq(_)
\* sorted(lanes)
SortedSeq(S) ==
    IF S = {} THEN <<>>
    ELSE LET m == CHOOSE x \in S : \A y \in S : x <= y
         IN <<m>> \o SortedSeq(S \ {m})

SeqRange(s) == {s[i] : i \in 1..Len(s)}

\* the lists that hold every element of S once: the orders in which a set iterates
ListsOf(S) ==
    {s \in [1..Cardinality(S) -> S] : \A i, j \in 1..Cardinality(S) : s[i] = s[j] => i = j}

\* ScenarioSegment(lower_bound, higher_bound, is_curve, lanes) with __post_init__'s id
ScenarioSegment(lower_bound, higher_bound, is_curve, lanes) ==
    [lower_bound |-> lower_bound,
     higher_bound |-> higher_bound,
     is_curve |-> is_curve,
     lanes |-> lanes,
     id |-> SortedSeq(SeqRange(lanes))]

\* an optional value: None, or the value x
None == [none |-> TRUE, v |-> <<>>]

Some(x) == [none |-> FALSE, v |-> x]

\* a call on the rasterizer: its operation, its argument, whether it is pending,
\* returned or raised, the value it returned and the calls it made on the map matcher
\* (getMapMatchedPositions, signedDistanceToLane); for get_most_probable_block also
\* its acceptable_delta and perfect_lane_match and what signedDistanceToLane
\* reports for each lane, for calculate_scenario_blocks its curve_sub_calculation
Call(op, arg, outcome, value, matcher_calls) ==
    [op |-> op, arg |-> arg, outcome |-> outcome, value |-> value, matcher_calls |-> matcher_calls,
     acceptable_delta |-> 0, perfect_lane_match |-> FALSE, dist |-> <<>>,
     curve_sub_calculation |-> FALSE]

NoArg == GeoPoint(0, 0, 0)

NoCall == Call("none", NoArg, "returned", None, 0)

---------------------------------------------------------------------------
(* InfrastructureRasterizer.__analyze_map, one action per iteration of its loop *)

\* a faulty variant: the new analysis goes on with the stored list
AnalyzeMapCall_KeepsSegments ==
    /\ pc = "idle"
    /\ pc' = "loop"
    /\ segments' = IF scenario_blocks.none THEN <<>> ELSE scenario_blocks.v
    /\ lanes_to_analyze' = {getLanes[1]}
    /\ analyzed_lanes' = {}
    /\ last_call' = Call("analyze_map", NoArg, "pending", None, 0)
    /\ UNCHANGED <<graphVars, componentVars, scenario_blocks, sectionVars>>

\* analyze_map_from_xodr_content / _file up to the loop of __analyze_map
AnalyzeMapCall ==
    /\ pc = "idle"
    /\ pc' = "loop"
    /\ segments' = <<>>
    /\ lanes_to_analyze' = {getLanes[1]}
    /\ analyzed_lanes' = {}
    /\ last_call' = Call("analyze_map", NoArg, "pending", None, 0)
    /\ UNCHANGED <<graphVars, componentVars, scenario_blocks, sectionVars>>

\* a faulty variant: the recursion works on a copy of the visited set
AnalyzeMapIteration_CopiesVisited ==
    /\ pc = "loop"
    /\ lanes_to_analyze # {}
    /\ \E lane_id \in lanes_to_analyze :
         \E r \in {analyze_lane(lane_id, analyzed_lanes)} :
         LET todo == add_lane_ids(r.to_analyze_lane_ids, lanes_to_analyze \ {lane_id})
         IN /\ analyzed_lanes' = analyzed_lanes
            /\ lanes_to_analyze' = reduce_LaneID_Set(todo, analyzed_lanes)
            /\ \E lanes \in ListsOf(r.block_lane_ids) :
                 segments' = Append(segments,
                                ScenarioSegment(r.min_pos, r.max_pos, r.curvature, lanes))
    /\ UNCHANGED <<graphVars, componentVars, pc, scenario_blocks, last_call, sectionVars>>

\* one iteration of `while lanes_to_analyze`
AnalyzeMapIteration ==
    /\ pc = "loop"
    /\ lanes_to_analyze # {}
    /\ \E lane_id \in lanes_to_analyze :
         \E r \in {analyze_lane(lane_id, analyzed_lanes)} :
         LET todo == add_lane_ids(r.to_analyze_lane_ids, lanes_to_analyze \ {lane_id})
         IN /\ analyzed_lanes' = r.analyzed_lane_ids
            /\ lanes_to_analyze' = reduce_LaneID_Set(todo, r.analyzed_lane_ids)
            /\ \E lanes \in ListsOf(r.block_lane_ids) :
                 segments' = Append(segments,
                                ScenarioSegment(r.min_pos, r.max_pos, r.curvature, lanes))
    /\ UNCHANGED <<graphVars, componentVars, pc, scenario_blocks, last_call, sectionVars>>

\* the loop ends: the list is stored and returned
AnalyzeMapReturn ==
    /\ pc = "loop"
    /\ lanes_to_analyze = {}
    /\ scenario_blocks' = Some(segments)
    /\ pc' = "idle"
    /\ segments' = <<>>
    /\ analyzed_lanes' = {}
    /\ last_call' = Call("analyze_map", NoArg, "returned", Some(segments), 0)
    /\ UNCHANGED <<graphVars, componentVars, lanes_to_analyze, sectionVars>>

---------------------------------------------------------------------------
(* The queries: calculate_scenario_blocks, get_most_probable_block,        *)
(* get_block_for_lane                                                      *)

\* the positions the queries are called with
Positions ==
    {GeoPoint(2, 4, 0), GeoPoint(2, 6, 0), GeoPoint(2, 0, 0), GeoPoint(7, 4, 0),
     GeoPoint(0, 3, 0)}

\* the lane ids get_block_for_lane is called with: those of the map and another one
QueryLaneIds == LaneIds \cup {9}

\* the distances signedDistanceToLane reports, and the values of acceptable_delta,
\* on a grid on which math.isclose is equality
Distances == {0, 1, 2, 3}

Deltas == {2}

\* sys.float_info.max
FloatMax == 1000000

isclose(a, b) == a = b

Abs(x) == IF x < 0 THEN -x ELSE x

Min2(a, b) == IF a < b THEN a ELSE b

\* a faulty variant: a location on the bounds is outside
is_in_Strict(seg, location, check_altitude) ==
    IF \/ location.latitude <= seg.lower_bound.latitude
       \/ location.longitude <= seg.lower_bound.longitude
    THEN FALSE
    ELSE IF \/ location.latitude >= seg.higher_bound.latitude
            \/ location.longitude >= seg.higher_bound.longitude
    THEN FALSE
    ELSE IF check_altitude /\ (\/ location.altitude < seg.lower_bound.altitude
                               \/ location.altitude > seg.higher_bound.altitude)
    THEN FALSE
    ELSE TRUE

\* ScenarioSegment.is_in(location, check_altitude)
is_in(seg, location, check_altitude) ==
    IF \/ location.latitude < seg.lower_bound.latitude
       \/ location.longitude < seg.lower_bound.longitude
    THEN FALSE
    ELSE IF \/ location.latitude > seg.higher_bound.latitude
            \/ location.longitude > seg.higher_bound.longitude
    THEN FALSE
    ELSE IF check_altitude /\ (\/ location.altitude < seg.lower_bound.altitude
                               \/ location.altitude > seg.higher_bound.altitude)
    THEN FALSE
    ELSE TRUE

\* ad.map.point.flatDistance of two geo points: zero exactly for the same place
flatDistance(p, q) == Abs(p.latitude - q.latitude) + Abs(p.longitude - q.longitude)

\* __calulcate_road_distance(position, lane_ids): the minimal distance of the
\* position to the edge points of the lanes
calulcate_road_distance(position, lane_ids) ==
    LET ds == {flatDistance(p, position) :
                 p \in UNION {SeqRange(EdgeLeft(lane_ids[i])) \cup SeqRange(EdgeRight(lane_ids[i]))
                               : i \in 1..Len(lane_ids)}}
    IN CHOOSE d \in ds : \A e \in ds : d <= e

\* a faulty variant: the list of the straight blocks and the close curved ones is returned
calculate_scenario_blocks_ReturnResult(blocks, position, curve_sub_calculation) ==
    LET Contains(b) == is_in(b, position, FALSE)
        containing_blocks == SelectSeq(blocks, Contains)
        NotCurve(b) == ~b.is_curve
        CloseCurve(b) == b.is_curve /\ isclose(calulcate_road_distance(position, b.lanes), 0)
        result == SelectSeq(containing_blocks, NotCurve)
                    \o (IF curve_sub_calculation
                        THEN SelectSeq(containing_blocks, CloseCurve) ELSE <<>>)
    IN result

\* calculate_scenario_blocks(position, curve_sub_calculation), called with a
\* non-empty list of blocks: the list it returns
calculate_scenario_blocks(blocks, position, curve_sub_calculation) ==
    LET Contains(b) == is_in(b, position, FALSE)
        containing_blocks == SelectSeq(blocks, Contains)
        NotCurve(b) == ~b.is_curve
        CloseCurve(b) == b.is_curve /\ isclose(calulcate_road_distance(position, b.lanes), 0)
        result == SelectSeq(containing_blocks, NotCurve)
                    \o (IF curve_sub_calculation
                        THEN SelectSeq(containing_blocks, CloseCurve) ELSE <<>>)
    IN containing_blocks

\* `if not self.__scenario_blocks`: None or an empty list
NoBlocksAvailable == scenario_blocks.none \/ scenario_blocks.v = <<>>

RECURSIVE ScanLanes(_, _, _, _, _, _)
\* the loop over candidate.lanes from the j-th lane on: whether a lane matched, the
\* minimal distance so far and the number of signedDistanceToLane calls
ScanLanes(lanes, j, dist, acceptable_delta, min_distance, calls) ==
    IF j > Len(lanes) THEN [hit |-> FALSE, min_distance |-> min_distance, calls |-> calls]
    ELSE LET distance == Abs(dist[lanes[j]])
         IN IF isclose(distance, 0) \/ isclose(distance, acceptable_delta)
            THEN [hit |-> TRUE, min_distance |-> min_distance, calls |-> calls + 1]
            ELSE ScanLanes(lanes, j + 1, dist, acceptable_delta,
                           Min2(min_distance, distance), calls + 1)

RECURSIVE ScanCandidates(_, _, _, _, _, _)
\* the loop over _candidates from the i-th on: the index of the candidate returned
\* from inside the loop (0 if none), candidates_min_distances and the calls made
ScanCandidates(candidates, i, dist, acceptable_delta, mins, calls) ==
    IF i > Len(candidates) THEN [hit |-> 0, mins |-> mins, calls |-> calls]
    ELSE LET r == ScanLanes(candidates[i].lanes, 1, dist, acceptable_delta, FloatMax, calls)
         IN IF r.hit
            THEN [hit |-> i, mins |-> mins, calls |-> r.calls]
            ELSE ScanCandidates(candidates, i + 1, dist, acceptable_delta,
                                Append(mins, r.min_distance), r.calls)

\* a faulty variant: of several minimal entries the last one is taken
IndexOfMin_Last(mins) ==
    CHOOSE i \in 1..Len(mins) :
        /\ \A j \in 1..Len(mins) : mins[i] <= mins[j]
        /\ \A j \in (i + 1)..Len(mins) : mins[j] # mins[i]

\* candidates_min_distances.index(min(candidates_min_distances))
IndexOfMin(mins) ==
    CHOOSE i \in 1..Len(mins) :
        /\ \A j \in 1..Len(mins) : mins[i] <= mins[j]
        /\ \A j \in 1..(i - 1) : mins[j] # mins[i]

\* a faulty variant: without candidates the null block is returned
most_probable_of_NullBlock(candidates, dist, acceptable_delta, perfect_lane_match) ==
    IF candidates = <<>>
    THEN [value |-> Some(ScenarioSegment(GeoPoint(-1, -1, -1), GeoPoint(-1, -1, -1),
                                         FALSE, <<-1>>)),
          calls |-> 0]
    ELSE IF Len(candidates) = 1 THEN [value |-> Some(candidates[1]), calls |-> 0]
    ELSE LET scan == ScanCandidates(candidates, 1, dist, acceptable_delta, <<>>, 1)
         IN IF scan.hit # 0
            THEN [value |-> Some(candidates[scan.hit]), calls |-> scan.calls]
            ELSE IF perfect_lane_match
                 THEN [value |-> None, calls |-> scan.calls]
                 ELSE [value |-> Some(candidates[IndexOfMin(scan.mins)]), calls |-> scan.calls]

\* a faulty variant: without a direct match there is no result, whatever
\* perfect_lane_match is
most_probable_of_PerfectOnly(candidates, dist, acceptable_delta, perfect_lane_match) ==
    IF candidates = <<>> THEN [value |-> None, calls |-> 0]
    ELSE IF Len(candidates) = 1 THEN [value |-> Some(candidates[1]), calls |-> 0]
    ELSE LET scan == ScanCandidates(candidates, 1, dist, acceptable_delta, <<>>, 1)
         IN IF scan.hit # 0
            THEN [value |-> Some(candidates[scan.hit]), calls |-> scan.calls]
            ELSE [value |-> None, calls |-> scan.calls]

\* get_most_probable_block after its call of calculate_scenario_blocks returned
\* _candidates: the value returned and the number of calls on the map matcher;
\* dist is what signedDistanceToLane reports for each lane
most_probable_of(candidates, dist, acceptable_delta, perfect_lane_match) ==
    IF candidates = <<>> THEN [value |-> None, calls |-> 0]
    ELSE IF Len(candidates) = 1 THEN [value |-> Some(candidates[1]), calls |-> 0]
    ELSE LET scan == ScanCandidates(candidates, 1, dist, acceptable_delta, <<>>, 1)
         IN IF scan.hit # 0
            THEN [value |-> Some(candidates[scan.hit]), calls |-> scan.calls]
            ELSE IF perfect_lane_match
                 THEN [value |-> None, calls |-> scan.calls]
                 ELSE [value |-> Some(candidates[IndexOfMin(scan.mins)]), calls |-> scan.calls]

\* a faulty variant: the stored list itself is filtered
CalculateScenarioBlocks_FiltersInPlace ==
    /\ pc = "idle"
    /\ \E position \in Positions, curve_sub_calculation \in BOOLEAN :
         IF NoBlocksAvailable
         THEN /\ last_call' = [Call("calculate_scenario_blocks", position, "raised", None, 0)
                                 EXCEPT !.curve_sub_calculation = curve_sub_calculation]
              /\ UNCHANGED scenario_blocks
         ELSE /\ scenario_blocks' = Some(calculate_scenario_blocks(scenario_blocks.v, position,
                                                                   curve_sub_calculation))
              /\ last_call' = [Call("calculate_scenario_blocks", position, "returned",
                                    scenario_blocks', 0)
                                 EXCEPT !.curve_sub_calculation = curve_sub_calculation]
    /\ UNCHANGED <<graphVars, componentVars, pc, lanes_to_analyze, analyzed_lanes, segments, sectionVars>>

\* self.calculate_scenario_blocks(position, curve_sub_calculation)
CalculateScenarioBlocks ==
    /\ pc = "idle"
    /\ \E position \in Positions, curve_sub_calculation \in BOOLEAN :
         last_call' =
            [(IF NoBlocksAvailable
              THEN Call("calculate_scenario_blocks", position, "raised", None, 0)
              ELSE Call("calculate_scenario_blocks", position, "returned",
                        Some(calculate_scenario_blocks(scenario_blocks.v, position,
                                                       curve_sub_calculation)), 0))
             EXCEPT !.curve_sub_calculation = curve_sub_calculation]
    /\ UNCHANGED <<graphVars, componentVars, pc, lanes_to_analyze, analyzed_lanes, segments,
                   scenario_blocks, sectionVars>>

\* what the map matcher can report for the lanes of the candidates; it has
\* nothing to report where it is not asked
MatcherAnswers(candidates) ==
    IF Len(candidates) < 2 THEN {[l \in {} |-> 0]}
    ELSE [UNION {SeqRange(candidates[i].lanes) : i \in 1..Len(candidates)} -> Distances]

RECURSIVE FlatLanes(_)
\* the lanes of the candidates in the order in which the scan visits them
FlatLanes(candidates) ==
    IF candidates = <<>> THEN <<>>
    ELSE Head(candidates).lanes \o FlatLanes(Tail(candidates))

\* the answers signedDistanceToLane gave in a scan that made `calls` calls on the
\* map matcher: one call of getMapMatchedPositions, then one per lane visited
AnswersGiven(candidates, dist, calls) ==
    [l \in {FlatLanes(candidates)[j] : j \in 1..(calls - 1)} |-> dist[l]]

\* self.get_most_probable_block(position, rotation, acceptable_delta, perfect_lane_match)
GetMostProbableBlock ==
    /\ pc = "idle"
    /\ \E position \in Positions, acceptable_delta \in Deltas, perfect_lane_match \in BOOLEAN :
         IF NoBlocksAvailable
         THEN last_call' = Call("get_most_probable_block", position, "raised", None, 0)
         ELSE \E candidates \in {calculate_scenario_blocks(scenario_blocks.v, position, TRUE)} :
              \E dist \in MatcherAnswers(candidates) :
              \E r \in {most_probable_of(candidates, dist, acceptable_delta, perfect_lane_match)} :
                 last_call' = [Call("get_most_probable_block", position, "returned",
                                    r.value, r.calls)
                                 EXCEPT !.acceptable_delta = acceptable_delta,
                                        !.perfect_lane_match = perfect_lane_match,
                                        !.dist = AnswersGiven(candidates, dist, r.calls)]
    /\ UNCHANGED <<graphVars, componentVars, pc, lanes_to_analyze, analyzed_lanes, segments,
                   scenario_blocks, sectionVars>>

\* the first block of the list that lists the lane, if any
first_block_with(blocks, lane_id) ==
    LET hits == {i \in 1..Len(blocks) : lane_id \in SeqRange(blocks[i].lanes)}
    IN IF hits = {} THEN None
       ELSE Some(blocks[CHOOSE i \in hits : \A j \in hits : i <= j])

\* self.get_block_for_lane(lane_id); iterating over None raises a TypeError
GetBlockForLane ==
    /\ pc = "idle"
    /\ \E lane_id \in QueryLaneIds :
         last_call' =
            IF scenario_blocks.none
            THEN Call("get_block_for_lane", GeoPoint(lane_id, 0, 0), "raised", None, 0)
            ELSE Call("get_block_for_lane", GeoPoint(lane_id, 0, 0), "returned",
                      first_block_with(scenario_blocks.v, lane_id), 0)
    /\ UNCHANGED <<graphVars, componentVars, pc, lanes_to_analyze, analyzed_lanes, segments,
                   scenario_blocks, sectionVars>>

\* self.blocks: the stored list, None (after a logged warning) before the first
\* analysis has stored one
GetBlocks ==
    /\ pc = "idle"
    /\ last_call' = Call("blocks", NoArg, "returned", scenario_blocks, 0)
    /\ UNCHANGED <<graphVars, componentVars, pc, lanes_to_analyze, analyzed_lanes, segments,
                   scenario_blocks, sectionVars>>

\* the two entry points of the analysis
AnalyzeEntryPoints == {"analyze_map_from_xodr_content", "analyze_map_from_xodr_file"}

\* a faulty variant: the stored list is dropped before the map is parsed
AnalyzeMapInitFails_DropsBlocks ==
    /\ pc = "idle"
    /\ \E entry \in AnalyzeEntryPoints :
         last_call' = Call(entry, NoArg, "raised", None, 0)
    /\ scenario_blocks' = None
    /\ UNCHANGED <<graphVars, componentVars, pc, lanes_to_analyze, analyzed_lanes, segments, sectionVars>>

\* analyze_map_from_xodr_content / analyze_map_from_xodr_file when
\* initFromOpenDriveContent returns False: a ValueError before __analyze_map
AnalyzeMapInitFails ==
    /\ pc = "idle"
    /\ \E entry \in AnalyzeEntryPoints :
         last_call' = Call(entry, NoArg, "raised", None, 0)
    /\ UNCHANGED <<graphVars, componentVars, pc, lanes_to_analyze, analyzed_lanes, segments,
                   scenario_blocks, sectionVars>>

---------------------------------------------------------------------------
(* DataCriticalSection and MapHelper.get_critical_section_for_lanes *)

CRITICAL_SECTION_MARGIN == 3

\* the DataLane objects of the model: the fields a critical section reads
DataLanes ==
    [ad_map_lane_id : {1, 2, 10}, lane_id : {1}, road_id : {1, 2}, lane_length : {2, 15, 20}]

\* what get_distance_to_start_of_lane can return for a lane: -1 (no match) or an
\* offset on the lane
DistancesOn(lane) == {d \in {-1, 0, 5, 10, lane.lane_length} : d <= lane.lane_length}

\* the contact point of two lanes, where they have one
ContactPoint == [x |-> 1, y |-> 1, z |-> 0]

Max2(a, b) == IF a > b THEN a ELSE b

RECURSIVE Digits(_)
\* str(n) for n >= 0, as the list of its decimal digits
Digits(n) == IF n < 10 THEN <<n>> ELSE Digits(n \div 10) \o <<n % 10>>

\* a faulty variant: the lanes are swapped, their start positions are not
DataCriticalSection_KeepPositions(contact_point, lane_1, start_pos_lane_1, lane_2, start_pos_lane_2) ==
    LET swap == lane_2.road_id < lane_1.road_id
        l1 == IF swap THEN lane_2 ELSE lane_1
        l2 == IF swap THEN lane_1 ELSE lane_2
    IN [id |-> Digits(l1.ad_map_lane_id) \o <<0>> \o Digits(l2.ad_map_lane_id),
        contact_point |-> contact_point,
        ad_map_lane_id_1 |-> l1.ad_map_lane_id,
        road_id_1 |-> l1.road_id,
        lane_id_1 |-> l1.lane_id,
        start_pos_1 |-> Max2(0, start_pos_lane_1 - CRITICAL_SECTION_MARGIN),
        end_pos_1 |-> Min2(l1.lane_length, start_pos_lane_1 + CRITICAL_SECTION_MARGIN),
        ad_map_lane_id_2 |-> l2.ad_map_lane_id,
        road_id_2 |-> l2.road_id,
        lane_id_2 |-> l2.lane_id,
        start_pos_2 |-> Max2(0, start_pos_lane_2 - CRITICAL_SECTION_MARGIN),
        end_pos_2 |-> Min2(l2.lane_length, start_pos_lane_2 + CRITICAL_SECTION_MARGIN)]

\* DataCriticalSection.__init__
DataCriticalSection(contact_point, lane_1, start_pos_lane_1, lane_2, start_pos_lane_2) ==
    LET swap == lane_2.road_id < lane_1.road_id
        l1 == IF swap THEN lane_2 ELSE lane_1
        l2 == IF swap THEN lane_1 ELSE lane_2
        s1 == IF swap THEN start_pos_lane_2 ELSE start_pos_lane_1
        s2 == IF swap THEN start_pos_lane_1 ELSE start_pos_lane_2
    IN [id |-> Digits(l1.ad_map_lane_id) \o <<0>> \o Digits(l2.ad_map_lane_id),
        contact_point |-> contact_point,
        ad_map_lane_id_1 |-> l1.ad_map_lane_id,
        road_id_1 |-> l1.road_id,
        lane_id_1 |-> l1.lane_id,
        start_pos_1 |-> Max2(0, s1 - CRITICAL_SECTION_MARGIN),
        end_pos_1 |-> Min2(l1.lane_length, s1 + CRITICAL_SECTION_MARGIN),
        ad_map_lane_id_2 |-> l2.ad_map_lane_id,
        road_id_2 |-> l2.road_id,
        lane_id_2 |-> l2.lane_id,
        start_pos_2 |-> Max2(0, s2 - CRITICAL_SECTION_MARGIN),
        end_pos_2 |-> Min2(l2.lane_length, s2 + CRITICAL_SECTION_MARGIN)]

\* get_critical_section_for_lanes(lane_1, lane_2), given what
\* get_contact_point_for_lanes and get_distance_to_start_of_lane return
get_critical_section_for_lanes(lane_1, lane_2, contact_point_for_lanes, distance_lane_1, distance_lane_2) ==
    IF contact_point_for_lanes.none THEN None
    ELSE Some(DataCriticalSection(contact_point_for_lanes.v, lane_1, distance_lane_1,
                                  lane_2, distance_lane_2))

\* no call of get_critical_section_for_lanes in this argument order yet
NotBuilt == [built |-> FALSE, lane_1 |-> 0, distance_lane_1 |-> 0, lane_2 |-> 0,
             distance_lane_2 |-> 0, section |-> None]

\* a call get_critical_section_for_lanes(lane_1, lane_2); order 1 passes the pair as
\* it is, order 2 passes it reversed
BuildCriticalSection ==
    /\ lane_pair # <<>>
    /\ \E order \in {1, 2} :
         LET lane_1 == lane_pair[order]
             lane_2 == lane_pair[3 - order]
         IN \E cp \in {None, Some(ContactPoint)},
               d1 \in DistancesOn(lane_1), d2 \in DistancesOn(lane_2) :
              sections' = [sections EXCEPT ![order] =
                            [built |-> TRUE,
                             lane_1 |-> lane_1.ad_map_lane_id,
                             distance_lane_1 |-> IF cp.none THEN 0 ELSE d1,
                             lane_2 |-> lane_2.ad_map_lane_id,
                             distance_lane_2 |-> IF cp.none THEN 0 ELSE d2,
                             section |-> get_critical_section_for_lanes(lane_1, lane_2, cp, d1, d2)]]
    /\ UNCHANGED <<graphVars, componentVars, rasterizerVars, lane_pair, helperVars>>

---------------------------------------------------------------------------
(* MapHelper.get_intersect, is_between and get_contact_point_for_lanes *)

\* a DataLocation with whole coordinates
DataLocation(x, y) == [x |-> x, y |-> y, z |-> 0]

\* the locations the midpoints of the lanes are taken from
GridPoints ==
    {DataLocation(0, 0), DataLocation(2, 2), DataLocation(0, 2), DataLocation(2, 0),
     DataLocation(1, 0), DataLocation(2, 1)}

RECURSIVE GCD(_, _)
GCD(a, b) == IF b = 0 THEN a ELSE GCD(b, a % b)

\* the location (x / z, y / z, 0) for z # 0: the quotients are kept exact as
\* xn / d and yn / d in lowest terms with d > 0
Quotients(x, y, z) ==
    LET g == GCD(GCD(Abs(x), Abs(y)), Abs(z))
        s == IF z < 0 THEN -g ELSE g
    IN [xn |-> x \div s, yn |-> y \div s, d |-> z \div s]

\* np.cross of two vectors of three components
Cross(a, b) ==
    <<a[2] * b[3] - a[3] * b[2], a[3] * b[1] - a[1] * b[3], a[1] * b[2] - a[2] * b[1]>>

\* a row of h: to_tuple() of the location with a 1 appended
Homogeneous(p) == <<p.x, p.y, 1>>

\* a faulty variant: x and y of the intersection are exchanged
get_intersect_Exchanged(lane_1_start, lane_1_end, lane_2_start, lane_2_end) ==
    LET l1 == Cross(Homogeneous(lane_1_start), Homogeneous(lane_1_end))
        l2 == Cross(Homogeneous(lane_2_start), Homogeneous(lane_2_end))
        p == Cross(l1, l2)
    IN IF p[3] = 0 THEN None
       ELSE Some(Quotients(p[2], p[1], p[3]))

\* MapHelper.get_intersect
get_intersect(lane_1_start, lane_1_end, lane_2_start, lane_2_end) ==
    LET l1 == Cross(Homogeneous(lane_1_start), Homogeneous(lane_1_end))
        l2 == Cross(Homogeneous(lane_2_start), Homogeneous(lane_2_end))
        p == Cross(l1, l2)
    IN IF p[3] = 0 THEN None
       ELSE Some(Quotients(p[1], p[2], p[3]))

\* a call of a MapHelper function: its name, its arguments and what it returned
HelperCall(op, args, value) == [op |-> op, args |-> args, value |-> value]

NoHelperCall == HelperCall("none", <<>>, None)

\* MapHelper.get_intersect(lane_1_start, lane_1_end, lane_2_start, lane_2_end)
GetIntersect ==
    /\ \E p1, p2, p3, p4 \in GridPoints :
         helper_call' = HelperCall("get_intersect", <<p1, p2, p3, p4>>,
                                   get_intersect(p1, p2, p3, p4))
    /\ UNCHANGED <<graphVars, componentVars, rasterizerVars, lane_pair, sections, static_block>>

\* MapHelper.is_between(a, b, c) for a location c = (xn / d, yn / d); the three
\* quantities are compared after multiplication by d > 0
is_between(a, b, c) ==
    LET cross_product == (c.yn - a.y * c.d) * (b.x - a.x) - (c.xn - a.x * c.d) * (b.y - a.y)
        dot_product == (c.xn - a.x * c.d) * (b.x - a.x) + (c.yn - a.y * c.d) * (b.y - a.y)
        squared_length_ba == (b.x - a.x) * (b.x - a.x) + (b.y - a.y) * (b.y - a.y)
    IN IF 10 * Abs(cross_product) > c.d THEN FALSE
       ELSE IF dot_product < 0 THEN FALSE
       ELSE IF dot_product > squared_length_ba * c.d THEN FALSE
       ELSE TRUE

RECURSIVE ContactFrom(_, _, _, _)
\* the loops of get_contact_point_for_lanes from the pair (lane_1_index,
\* lane_2_index) on, as indices from 1
ContactFrom(lane_1_midpoints, lane_2_midpoints, lane_1_index, lane_2_index) ==
    IF lane_1_index > Len(lane_1_midpoints) - 1 THEN None
    ELSE IF lane_2_index > Len(lane_2_midpoints) - 1
    THEN ContactFrom(lane_1_midpoints, lane_2_midpoints, lane_1_index + 1, 1)
    ELSE LET intersection == get_intersect(lane_1_midpoints[lane_1_index],
                                           lane_1_midpoints[lane_1_index + 1],
                                           lane_2_midpoints[lane_2_index],
                                           lane_2_midpoints[lane_2_index + 1])
         IN IF intersection.none THEN None
            ELSE IF /\ is_between(lane_1_midpoints[lane_1_index],
                                  lane_1_midpoints[lane_1_index + 1], intersection.v)
                    /\ is_between(lane_2_midpoints[lane_2_index],
                                  lane_2_midpoints[lane_2_index + 1], intersection.v)
            THEN intersection
            ELSE ContactFrom(lane_1_midpoints, lane_2_midpoints, lane_1_index, lane_2_index + 1)

\* MapHelper.get_contact_point_for_lanes(lane_1, lane_2), given the lane_midpoints
\* of the two lanes
get_contact_point_for_lanes(lane_1_midpoints, lane_2_midpoints) ==
    ContactFrom(lane_1_midpoints, lane_2_midpoints, 1, 1)

\* the lane_midpoints a lane can have: two or three locations, no two in a row equal
MidpointLists ==
    {<<p, q>> : p \in GridPoints, q \in GridPoints} \cup
    {<<p[1], p[2], p[3]>> : p \in GridPoints \X GridPoints \X GridPoints}

NoRepeat(m) == \A i \in 1..(Len(m) - 1) : m[i] # m[i + 1]

\* self.get_contact_point_for_lanes(lane_1, lane_2) for the two lanes at hand
GetContactPointForLanes ==
    /\ helper_call.op = "lanes"
    /\ helper_call' = HelperCall("get_contact_point_for_lanes", helper_call.args,
                                 get_contact_point_for_lanes(helper_call.args[1],
                                                             helper_call.args[2]))
    /\ UNCHANGED <<graphVars, componentVars, rasterizerVars, lane_pair, sections, static_block>>

\* get_data_static_block_for_block has not been called
NoStaticBlock == [pc |-> "idle", data_lanes |-> <<>>, lane_1 |-> 0, lane_2 |-> 0,
                  critical_sections |-> <<>>]

---------------------------------------------------------------------------
(* MapHelper.get_data_static_block_for_block, one action per pass of the   *)
(* inner loop                                                              *)

\* a faulty variant: the section matches the lanes in one order only
is_for_Ordered(self, lane_1, lane_2) ==
    lane_1.ad_map_lane_id = self.ad_map_lane_id_1 /\ lane_2.ad_map_lane_id = self.ad_map_lane_id_2

\* DataCriticalSection.is_for(lane_1, lane_2)
is_for(self, lane_1, lane_2) ==
    IF lane_1.ad_map_lane_id = self.ad_map_lane_id_1 /\ lane_2.ad_map_lane_id = self.ad_map_lane_id_2
    THEN TRUE
    ELSE IF lane_2.ad_map_lane_id = self.ad_map_lane_id_1 /\ lane_1.ad_map_lane_id = self.ad_map_lane_id_2
    THEN TRUE
    ELSE FALSE

\* the data_lanes of a block: two or three short lanes with different ids
StaticLaneLists ==
    LET Short == {l \in DataLanes : l.lane_length = 2}
    IN {s \in ({<<a, b>> : a \in Short, b \in Short} \cup
               {<<t[1], t[2], t[3]>> : t \in Short \X Short \X Short}) :
          \A i, j \in 1..Len(s) : i # j => s[i].ad_map_lane_id # s[j].ad_map_lane_id}

\* get_data_static_block_for_block(block) up to the loops
GetDataStaticBlockCall ==
    /\ static_block.pc = "idle"
    /\ static_block.data_lanes # <<>>
    /\ static_block' = [static_block EXCEPT !.pc = "loop", !.lane_1 = 1, !.lane_2 = 1,
                                            !.critical_sections = <<>>]
    /\ UNCHANGED <<graphVars, componentVars, rasterizerVars, lane_pair, sections, helper_call>>

\* one pass of `for lane_2 in data_lanes` inside `for lane_1 in data_lanes`
StaticBlockIteration ==
    /\ static_block.pc = "loop"
    /\ static_block.lane_1 <= Len(static_block.data_lanes)
    /\ LET lane_1 == static_block.data_lanes[static_block.lane_1]
           lane_2 == static_block.data_lanes[static_block.lane_2]
           last == static_block.lane_2 = Len(static_block.data_lanes)
           advanced == [static_block EXCEPT
                          !.lane_1 = IF last THEN @ + 1 ELSE @,
                          !.lane_2 = IF last THEN 1 ELSE @ + 1]
       IN IF lane_1.ad_map_lane_id = lane_2.ad_map_lane_id
          THEN static_block' = advanced
          ELSE IF \E i \in 1..Len(static_block.critical_sections) :
                     is_for(static_block.critical_sections[i], lane_1, lane_2)
          THEN static_block' = advanced
          ELSE \E cp \in {None, Some(ContactPoint)},
                  d1 \in DistancesOn(lane_1), d2 \in DistancesOn(lane_2) :
               \E data_critical_section \in
                      {get_critical_section_for_lanes(lane_1, lane_2, cp, d1, d2)} :
                 static_block' =
                    IF data_critical_section.none THEN advanced
                    ELSE [advanced EXCEPT !.critical_sections =
                              Append(@, data_critical_section.v)]
    /\ UNCHANGED <<graphVars, componentVars, rasterizerVars, lane_pair, sections, helper_call>>

\* the loops are over: the DataStaticBlock is returned
GetDataStaticBlockReturn ==
    /\ static_block.pc = "loop"
    /\ static_block.lane_1 > Len(static_block.data_lanes)
    /\ static_block' = [static_block EXCEPT !.pc = "returned"]
    /\ UNCHANGED <<graphVars, componentVars, rasterizerVars, lane_pair, sections, helper_call>>

---------------------------------------------------------------------------
(* MapHelper.get_static_map_information: a ThreadPoolExecutor, one future  *)
(* per block                                                               *)

\* ThreadPoolExecutor(max_workers=10)
max_workers == 10

\* the input lists have at most MaxBlocks different blocks
MaxBlocks == 3

\* a block of the rasterizer with the single lane l
BlockOf(l) == ScenarioSegment(GeoPoint(0, 0, 0), GeoPoint(1, 1, 0), FALSE, <<l>>)

\* the lists `blocks` of the model: the lists of different blocks, and one list
\* that is longer than the pool has workers (the same block again and again)
BlockLists ==
    {s \in UNION {[1..n -> {BlockOf(l) : l \in 1..MaxBlocks}] : n \in 0..MaxBlocks} :
        \A i, j \in 1..Len(s) : s[i] = s[j] => i = j}
    \cup {[i \in 1..(max_workers + 1) |-> BlockOf(1)]}

\* DataStaticBlock(block_id=block.id, lanes=data_lanes, critical_sections=...)
DataStaticBlock(block_id, lanes) == [block_id |-> block_id, lanes |-> lanes]

\* a future of the pool: the block of its task, the state of the task, the local
\* data_lanes of the running task and its result
Future(block) == [block |-> block, state |-> "pending", data_lanes |-> <<>>, result |-> None]

\* get_static_map_information has not been called
NoExecutor ==
    [pc |-> "idle", all_blocks |-> <<>>, future_pool |-> <<>>, yielded |-> {},
     static_block_info |-> <<>>, completed_tasks |-> 0, value |-> None]

\* the futures of the given state
FuturesIn(state) ==
    {i \in 1..Len(executor.future_pool) : executor.future_pool[i].state = state}

\* get_static_map_information(blocks) up to the `with` statement
GetStaticMapInformationCall ==
    /\ executor.pc = "idle"
    /\ executor' = [executor EXCEPT !.pc = "submit"]
    /\ UNCHANGED <<baseVars, noise_gen, block_query, stopped_test>>

\* one pass of `for block in all_blocks`: executor.submit and future_pool.append
Submit ==
    /\ executor.pc = "submit"
    /\ Len(executor.future_pool) < Len(executor.all_blocks)
    /\ executor' = [executor EXCEPT !.future_pool =
                        Append(@, Future(executor.all_blocks[Len(@) + 1]))]
    /\ UNCHANGED <<baseVars, noise_gen, block_query, stopped_test>>

\* the end of the `with` statement: shutdown(wait=True) begins
ExecutorExit ==
    /\ executor.pc = "submit"
    /\ Len(executor.future_pool) = Len(executor.all_blocks)
    /\ executor' = [executor EXCEPT !.pc = "shutdown"]
    /\ UNCHANGED <<baseVars, noise_gen, block_query, stopped_test>>

\* shutdown(wait=True) returns: every worker thread has been joined
ExecutorJoined ==
    /\ executor.pc = "shutdown"
    /\ FuturesIn("pending") = {} /\ FuturesIn("running") = {}
    /\ executor' = [executor EXCEPT !.pc = "collect"]
    /\ UNCHANGED <<baseVars, noise_gen, block_query, stopped_test>>

\* a faulty variant: a thread is started for every work item
WorkerStart_Unbounded ==
    /\ \E i \in FuturesIn("pending") :
         /\ \A j \in FuturesIn("pending") : i <= j
         /\ executor' = [executor EXCEPT
                             !.future_pool[i].state = "running",
                             !.future_pool[i].data_lanes = executor.future_pool[i].block.lanes]
    /\ UNCHANGED <<baseVars, noise_gen, block_query, stopped_test>>

\* a worker thread takes the oldest work item of the queue and runs
\* get_data_static_block_for_block up to its loops; there are at most max_workers
\* threads
WorkerStart ==
    /\ Cardinality(FuturesIn("running")) < max_workers
    /\ \E i \in FuturesIn("pending") :
         /\ \A j \in FuturesIn("pending") : i <= j
         /\ executor' = [executor EXCEPT
                             !.future_pool[i].state = "running",
                             !.future_pool[i].data_lanes = executor.future_pool[i].block.lanes]
    /\ UNCHANGED <<baseVars, noise_gen, block_query, stopped_test>>

\* get_data_static_block_for_block returns in a worker thread: the future is done
WorkerFinish ==
    /\ \E i \in FuturesIn("running") :
         executor' = [executor EXCEPT
                         !.future_pool[i].state = "finished",
                         !.future_pool[i].result =
                             Some(DataStaticBlock(executor.future_pool[i].block.id,
                                                  executor.future_pool[i].data_lanes))]
    /\ UNCHANGED <<baseVars, noise_gen, block_query, stopped_test>>

\* one pass of `for future in as_completed(future_pool)`: a finished future that
\* was not yielded yet, in any order
Collect ==
    /\ executor.pc = "collect"
    /\ \E i \in FuturesIn("finished") \ executor.yielded :
         executor' = [executor EXCEPT
                         !.yielded = @ \cup {i},
                         !.completed_tasks = @ + 1,
                         !.static_block_info = Append(@, executor.future_pool[i].result.v)]
    /\ UNCHANGED <<baseVars, noise_gen, block_query, stopped_test>>

\* as_completed is exhausted: DataStaticMapInformation(static_blocks=[future.result()
\* for future in future_pool])
GetStaticMapInformationReturn ==
    /\ executor.pc = "collect"
    /\ executor.yielded = 1..Len(executor.future_pool)
    /\ executor' = [executor EXCEPT
                        !.pc = "returned",
                        !.value = Some([i \in 1..Len(executor.future_pool) |->
                                           executor.future_pool[i].result.v])]
    /\ UNCHANGED <<baseVars, noise_gen, block_query, stopped_test>>

---------------------------------------------------------------------------
(* normal_noise_generator *)

\* the actor lists have at most MaxActors actors
MaxActors == 2

\* the noise arrays have at most MaxNoiseColumns columns
MaxNoiseColumns == 4

\* the values of the entries of a noise array
NoiseValues == {-1, 1}

\* the DataActor with id i; every attribute is (i, i, i) or, for the rotation,
\* also (-i, -i, -i); a vector is <<x, y, z>>, a rotation <<pitch, yaw, roll>>
DataActorOf(i, turn) ==
    [id |-> i, location |-> <<i, i, i>>, rotation |-> <<turn * i, turn * i, turn * i>>,
     velocity |-> <<i, i, i>>, acceleration |-> <<i, i, i>>, angular_velocity |-> <<i, i, i>>]

ActorLists ==
    {[i \in 1..n |-> DataActorOf(i, turn)] : n \in 0..MaxActors, turn \in {1, -1}}

\* the arrays of the shape (rows, columns)
NoiseArrays(rows, columns) == [1..rows -> [1..columns -> NoiseValues]]

\* the values of the argument `noise`: None, or an array with up to MaxActors rows
\* and up to MaxNoiseColumns columns; an array without rows is the empty list
Noises ==
    {None} \cup {Some(a) : a \in UNION {NoiseArrays(rows, columns) :
                                          rows \in 0..MaxActors, columns \in 0..MaxNoiseColumns}}

\* len(noise)
NoiseRows(noise) == Len(noise.v)

\* np.shape(noise)[1] of an array with a row
NoiseColumns(noise) == Len(noise.v[1])

\* `a is not b` for two ints: both are below 257 here, where equal ints are one object
is_not(a, b) == a # b

\* align_noise_3d_shape(actors, noise): whether it raises a ValueError, else the
\* array it returns
align_noise_3d_shape(actors, noise) ==
    IF Len(actors) = 0 THEN [raised |-> FALSE, v |-> <<>>]
    ELSE IF noise.none \/ NoiseRows(noise) = 0 \/ NoiseColumns(noise) < 0 \/ NoiseColumns(noise) > 3
    THEN [raised |-> TRUE, v |-> <<>>]
    ELSE IF is_not(NoiseRows(noise), Len(actors))
    THEN [raised |-> TRUE, v |-> <<>>]
    ELSE [raised |-> FALSE,
          v |-> [i \in 1..Len(actors) |->
                    [k \in 1..3 |-> IF k <= NoiseColumns(noise) THEN noise.v[i][k] ELSE 0]]]

\* the sum of a vector and a row of noise
Noised(vector, pos_noise) ==
    <<vector[1] + pos_noise[1], vector[2] + pos_noise[2], vector[3] + pos_noise[3]>>

\* the same for a rotation: every angle modulo 360
Turned(rotation, pos_noise) ==
    <<(rotation[1] + pos_noise[1]) % 360, (rotation[2] + pos_noise[2]) % 360,
      (rotation[3] + pos_noise[3]) % 360>>

\* the loop over zip(actors, noise_actors) of an add_*_noise function
NoisedActors(type, actors, noise_actors) ==
    [i \in 1..Len(noise_actors) |->
        CASE type = "position"         -> [actors[i] EXCEPT !.location = Noised(@, noise_actors[i])]
          [] type = "rotation"         -> [actors[i] EXCEPT !.rotation = Turned(@, noise_actors[i])]
          [] type = "velocity"         -> [actors[i] EXCEPT !.velocity = Noised(@, noise_actors[i])]
          [] type = "acceleration"     -> [actors[i] EXCEPT !.acceleration = Noised(@, noise_actors[i])]
          [] type = "angular_velocity" -> [actors[i] EXCEPT !.angular_velocity = Noised(@, noise_actors[i])]]

\* add_position_noise, add_rotation_noise, add_velocity_noise,
\* add_acceleration_noise, add_angular_velocity_noise: whether the call raises a
\* ValueError, and the actors after it
add_noise(type, actors, noise) ==
    LET noise_actors == align_noise_3d_shape(actors, noise)
    IN IF noise_actors.raised
       THEN [raised |-> TRUE, actors |-> actors]
       ELSE [raised |-> FALSE, actors |-> NoisedActors(type, actors, noise_actors.v)]

NoiseTypes == {"position", "rotation", "velocity", "acceleration", "angular_velocity"}

\* the state of the noise generator's callers: the actors, the call made on them
\* (its function, its noise, the actors before it) and its outcome
NoiseCall(actors, op, noise, init_actors, outcome) ==
    [actors |-> actors, op |-> op, noise |-> noise, init_actors |-> init_actors,
     outcome |-> outcome, noise_type |-> {}, shape |-> 0, stage |-> 0]

\* no actors, no call
NoNoise == NoiseCall(<<>>, "none", None, <<>>, "none")

\* add_<type>_noise(actors, noise), called once on a list of actors
AddNoise ==
    /\ noise_gen.op = "none"
    /\ \E type \in NoiseTypes, noise \in Noises :
       \E r \in {add_noise(type, noise_gen.actors, noise)} :
         noise_gen' = NoiseCall(r.actors, type, noise, noise_gen.actors,
                                IF r.raised THEN "raised" ELSE "returned")
    /\ UNCHANGED <<baseVars, executor, block_query, stopped_test>>

\* the noise types of apply_normal_noise in the order of its if statements, each
\* with the member of NoiseTypeEnum that selects it
StageTypes == <<"position", "rotation", "velocity", "acceleration", "angular_velocity">>

StageEnums == <<"POSITION_NOISE", "ROTATION_NOISE", "VELOCITY_NOISE", "ACCELERATION_NOISE",
                "ANGULAR_VELOCITY_NOISE">>

\* the values of the argument noise_type: no type, all types, one type, two types
NoiseTypeLists ==
    {{"NO_NOISE"}, {"ALL_NOISE"}, {"ROTATION_NOISE", "ANGULAR_VELOCITY_NOISE"}}
    \cup {{StageEnums[k]} : k \in 1..Len(StageEnums)}

\* the second entry of the shape handed to get_noise at a stage: the argument
\* `shape` for position, rotation and velocity, 2 for the two others
StageColumns(stage, shape) == IF stage <= 3 THEN shape ELSE 2

\* apply_normal_noise(actors, noise_type, mean, deviation, shape) up to its first
\* if statement; log_data is left False
ApplyNormalNoiseCall ==
    /\ noise_gen.op = "none"
    /\ \E noise_type \in NoiseTypeLists, shape \in 0..MaxNoiseColumns :
         noise_gen' = [NoiseCall(noise_gen.actors, "apply_normal_noise", None,
                                 noise_gen.actors, "pending")
                          EXCEPT !.noise_type = noise_type, !.shape = shape, !.stage = 1]
    /\ UNCHANGED <<baseVars, executor, block_query, stopped_test>>

\* one of the five if statements: if the type is selected, get_noise draws an array
\* and the add function of the type is called; its ValueError ends the call
ApplyNormalNoiseStage ==
    /\ noise_gen.op = "apply_normal_noise"
    /\ noise_gen.outcome = "pending"
    /\ noise_gen.stage <= Len(StageTypes)
    /\ IF "ALL_NOISE" \in noise_gen.noise_type \/ StageEnums[noise_gen.stage] \in noise_gen.noise_type
       THEN \E noise \in NoiseArrays(Len(noise_gen.actors),
                                     StageColumns(noise_gen.stage, noise_gen.shape)) :
            \E r \in {add_noise(StageTypes[noise_gen.stage], noise_gen.actors, Some(noise))} :
              noise_gen' = IF r.raised
                           THEN [noise_gen EXCEPT !.outcome = "raised"]
                           ELSE [noise_gen EXCEPT !.actors = r.actors, !.stage = @ + 1]
       ELSE noise_gen' = [noise_gen EXCEPT !.stage = @ + 1]
    /\ UNCHANGED <<baseVars, executor, block_query, stopped_test>>

\* the end of apply_normal_noise
ApplyNormalNoiseReturn ==
    /\ noise_gen.op = "apply_normal_noise"
    /\ noise_gen.outcome = "pending"
    /\ noise_gen.stage > Len(StageTypes)
    /\ noise_gen' = [noise_gen EXCEPT !.outcome = "returned"]
    /\ UNCHANGED <<baseVars, executor, block_query, stopped_test>>

---------------------------------------------------------------------------
(* MapHelper.get_actors_in_block *)

\* the largest number of actors handed to get_actors_in_block
MaxBlockActors == 2

\* a DataActor as far as get_actors_in_block reads it
BlockActor(id, ad_map_lane_id, geo_location) ==
    [id |-> id, ad_map_lane_id |-> ad_map_lane_id, geo_location |-> geo_location]

\* where the actors are: on the first lane or beside it, on a lane of the map or
\* on one the map does not know
ActorPositions == {GeoPoint(2, 4, 0), GeoPoint(7, 4, 0)}

BlockActorLists ==
    UNION {[1..n -> QueryLaneIds \X ActorPositions] : n \in 0..MaxBlockActors}

\* the list of the actors of a choice of lanes and positions, numbered by their ids
BlockActorsOf(choice) ==
    [i \in DOMAIN choice |-> BlockActor(i, choice[i][1], choice[i][2])]

\* a call of get_actors_in_block: the block it was given, the actors, the local
\* variable block, the index of the next actor of the loop, the blocks found for
\* the actors so far, filtered_actors, and how the call ended
BlockQuery(op, given, actors, block, next, found, filtered_actors, outcome, error) ==
    [op |-> op, given |-> given, actors |-> actors, block |-> block, next |-> next,
     found |-> found, filtered_actors |-> filtered_actors, outcome |-> outcome,
     error |-> error]

NoBlockQuery == BlockQuery("none", None, <<>>, None, 0, <<>>, <<>>, "none", "none")

\* `if block.id == block.id`, block being the local variable the loop has just
\* assigned
same_block(block, given) == block.id = block.id

\* self._map_helper.get_actors_in_block(block, actors) with a block of the stored list
GetActorsInBlockCall ==
    /\ pc = "idle"
    /\ ~scenario_blocks.none
    /\ block_query.outcome # "pending"
    /\ \E i \in 1..Len(scenario_blocks.v), choice \in BlockActorLists :
         block_query' = BlockQuery("get_actors_in_block", Some(scenario_blocks.v[i]),
                                   BlockActorsOf(choice), Some(scenario_blocks.v[i]), 1,
                                   <<>>, <<>>, "pending", "none")
    /\ UNCHANGED <<baseVars, executor, noise_gen, stopped_test>>

\* one iteration of `for actor in actors`: get_block_for_lane, then
\* get_most_probable_block with its default acceptable_delta (met by a distance of
\* zero only) and perfect_lane_match, then the ValueError or the comparison
GetActorsInBlockIteration ==
    /\ block_query.outcome = "pending"
    /\ block_query.next <= Len(block_query.actors)
    /\ \E actor \in {block_query.actors[block_query.next]} :
       \E by_lane \in {first_block_with(scenario_blocks.v, actor.ad_map_lane_id)} :
       \E candidates \in {calculate_scenario_blocks(scenario_blocks.v, actor.geo_location, TRUE)} :
       \E dist \in MatcherAnswers(candidates) :
       \E block \in {IF ~by_lane.none THEN by_lane
                      ELSE most_probable_of(candidates, dist, 0, FALSE).value} :
          block_query' =
             IF block.none
             THEN [block_query EXCEPT !.block = block,
                                      !.found = Append(@, block),
                                      !.outcome = "raised", !.error = "ValueError"]
             ELSE [block_query EXCEPT !.block = block,
                                      !.found = Append(@, block),
                                      !.next = @ + 1,
                                      !.filtered_actors =
                                          IF same_block(block.v, block_query.given.v)
                                          THEN Append(@, actor) ELSE @]
    /\ UNCHANGED <<baseVars, executor, noise_gen, stopped_test>>

\* the end of the loop; no DataActor is a ServerSideSensor, so the second loop
\* removes nothing
GetActorsInBlockReturn ==
    /\ block_query.outcome = "pending"
    /\ block_query.next > Len(block_query.actors)
    /\ block_query' = [block_query EXCEPT !.outcome = "returned"]
    /\ UNCHANGED <<baseVars, executor, noise_gen, stopped_test>>

---------------------------------------------------------------------------
(* VehicleStoppedTest *)

\* the largest number of update() ticks of one test
MaxTicks == 6

\* seconds until a stopped vehicle is flagged
MAX_IDLE_TIME == 1

\* the speed that counts as driving, in tenths of a metre per second
MIN_VELOCITY == 5

\* the speeds CarlaDataProvider.get_velocity reports, in tenths of a metre per
\* second: just below MIN_VELOCITY and at it
Speeds == {4, 5}

\* the seconds of game time that pass between two ticks; none when no new
\* snapshot has arrived
TimeSteps == {0, 1, 2}

NoTime == -1

\* one tick of the monitor loop as seen from outside: the game time, the speed
\* read, actual_value and the number of messages sent after it, and what
\* update() returned
Tick(time, actor_speed, actual_value, sent, status) ==
    [time |-> time, actor_speed |-> actor_speed, actual_value |-> actual_value,
     sent |-> sent, status |-> status]

\* a VehicleStoppedTest as __init__ leaves it, at game time zero: its fields, the
\* game time, the messages sent, and the ticks so far
StoppedTest(terminate_on_failure) ==
    [pc |-> "running", terminate_on_failure |-> terminate_on_failure,
     last_stopped_time |-> 0, has_initially_moved |-> FALSE,
     stopped_times |-> <<>>, test_status |-> "INIT",
     actual_value |-> 0, time |-> 0, sent |-> 0, ticks |-> <<>>]

\* no test has been built
NoStoppedTest == [StoppedTest(FALSE) EXCEPT !.pc = "none"]

\* VehicleStoppedTest(actor, debug_mode, terminate_on_failure=args.sof) after
\* GameTime.restart()
VehicleStoppedTestInit ==
    /\ stopped_test.pc = "none"
    /\ \E terminate_on_failure \in BOOLEAN :
         stopped_test' = StoppedTest(terminate_on_failure)
    /\ UNCHANGED <<baseVars, executor, noise_gen, block_query>>

\* a faulty variant: no stop counts as recorded
already_recorded_Never(stopped_times, last_stopped_time) == FALSE

\* self._stopped_times.__contains__(self._last_stopped_time)
already_recorded(stopped_times, last_stopped_time) ==
    last_stopped_time \in SeqRange(stopped_times)

\* `actor_speed is not None and actor_speed >= self.MIN_VELOCITY`; get_velocity
\* reports a number
driving(actor_speed) == actor_speed >= MIN_VELOCITY

\* one round of the monitor loop: GameTime.on_carla_tick, then test.update().
\* send_violation connects to the violation server and can fail, which ends the
\* loop with the stop time stored and nothing counted.
Update ==
    /\ stopped_test.pc = "running"
    /\ Len(stopped_test.ticks) < MaxTicks
    /\ \E step \in TimeSteps, actor_speed \in Speeds, connected \in BOOLEAN :
       \E time \in {stopped_test.time + step} :
       \E last_stopped_time \in {IF stopped_test.last_stopped_time = NoTime THEN time
                                  ELSE stopped_test.last_stopped_time} :
          IF driving(actor_speed)
          THEN /\ connected
               /\ stopped_test' =
                     [stopped_test EXCEPT
                        !.time = time,
                        !.has_initially_moved = TRUE,
                        !.last_stopped_time = NoTime,
                        !.ticks = Append(@, Tick(time, actor_speed, stopped_test.actual_value,
                                                 stopped_test.sent, "RUNNING"))]
          ELSE IF ~stopped_test.has_initially_moved
          THEN /\ connected
               /\ stopped_test' =
                     [stopped_test EXCEPT
                        !.time = time,
                        !.ticks = Append(@, Tick(time, actor_speed, stopped_test.actual_value,
                                                 stopped_test.sent, "RUNNING"))]
          ELSE IF \/ already_recorded(stopped_test.stopped_times, last_stopped_time)
                  \/ time - last_stopped_time < MAX_IDLE_TIME
          THEN /\ connected
               /\ stopped_test' =
                     [stopped_test EXCEPT
                        !.time = time,
                        !.last_stopped_time = last_stopped_time,
                        !.ticks = Append(@, Tick(time, actor_speed, stopped_test.actual_value,
                                                 stopped_test.sent, "RUNNING"))]
          ELSE IF ~connected
          THEN stopped_test' =
                     [stopped_test EXCEPT
                        !.pc = "raised",
                        !.time = time,
                        !.last_stopped_time = last_stopped_time,
                        !.stopped_times = Append(@, last_stopped_time),
                        !.ticks = Append(@, Tick(time, actor_speed, stopped_test.actual_value,
                                                 stopped_test.sent, "raised"))]
          ELSE stopped_test' =
                     [stopped_test EXCEPT
                        !.time = time,
                        !.last_stopped_time = last_stopped_time,
                        !.stopped_times = Append(@, last_stopped_time),
                        !.sent = @ + 1,
                        !.test_status = "FAILURE",
                        !.actual_value = @ + 1,
                        !.ticks = Append(@, Tick(time, actor_speed, stopped_test.actual_value + 1,
                                                 stopped_test.sent + 1,
                                                 IF stopped_test.terminate_on_failure
                                                 THEN "FAILURE" ELSE "RUNNING"))]
    /\ UNCHANGED <<baseVars, executor, noise_gen, block_query>>

---------------------------------------------------------------------------
(* Specification *)

\* InfrastructureRasterizer.__init__ on a loaded map
InitRasterizer ==
    /\ pc = "idle"
    /\ lanes_to_analyze = {}
    /\ analyzed_lanes = {}
    /\ segments = <<>>
    /\ scenario_blocks = None
    /\ last_call = NoCall

\* no critical section is being built
NoSections ==
    /\ lane_pair = <<>>
    /\ sections = <<>>
    /\ helper_call = NoHelperCall
    /\ static_block = NoStaticBlock

\* no other component is in use
NoComponents ==
    /\ executor = NoExecutor
    /\ noise_gen = NoNoise
    /\ block_query = NoBlockQuery
    /\ stopped_test = NoStoppedTest

\* every lane graph with at most MaxContacts contacts, lanes side by side
Init ==
    /\ laneType \in [LaneIds -> LaneTypes]
    /\ \E C \in ContactSets(MaxContacts) :
         contactLanes = [l \in LaneIds |-> ContactList(l, C)]
    /\ layout = "row"
    /\ InitRasterizer
    /\ NoSections
    /\ NoComponents

\* every lane graph with at most MaxGeoContacts contacts, in every layout
InitGeo ==
    /\ laneType \in [LaneIds -> LaneTypes]
    /\ \E C \in ContactSets(MaxGeoContacts) :
         contactLanes = [l \in LaneIds |-> ContactList(l, C)]
    /\ layout \in Layouts
    /\ InitRasterizer
    /\ NoSections
    /\ NoComponents

Next ==
    \/ AnalyzeMapCall
    \/ AnalyzeMapIteration
    \/ AnalyzeMapReturn

Spec == Init /\ [][Next]_vars

SpecGeo == InitGeo /\ [][Next]_vars

\* the lane graphs of SpecLive have at most MaxLiveContacts contact relations
MaxLiveContacts == 3

\* a rasterizer before a map is loaded: the lanes have no contacts yet
InitLive ==
    /\ laneType = [l \in LaneIds |-> "NORMAL"]
    /\ contactLanes = [l \in LaneIds |-> <<>>]
    /\ layout = "row"
    /\ InitRasterizer
    /\ NoSections
    /\ NoComponents

\* analyze_map_from_xodr_content(xodr_content): initFromOpenDriveContent loads a
\* map, any graph of Normal and Intersection lanes with at most MaxLiveContacts
\* continuation and adjacency contacts, and __analyze_map begins; one map is
\* loaded in a behaviour
AnalyzeMapFromXodrContent ==
    /\ pc = "idle"
    /\ scenario_blocks.none
    /\ laneType' \in [LaneIds -> {"NORMAL", "INTERSECTION"}]
    /\ \E C \in {S \in ContactSets(MaxLiveContacts) : \A c \in S : c[3] # "stop"} :
         contactLanes' = [l \in LaneIds |-> ContactList(l, C)]
    /\ pc' = "loop"
    /\ segments' = <<>>
    /\ lanes_to_analyze' = {getLanes[1]}
    /\ analyzed_lanes' = {}
    /\ last_call' = Call("analyze_map", NoArg, "pending", None, 0)
    /\ UNCHANGED <<layout, componentVars, scenario_blocks, sectionVars>>

NextLive ==
    \/ AnalyzeMapFromXodrContent
    \/ AnalyzeMapIteration
    \/ AnalyzeMapReturn

\* ENABLED <<AnalyzeMapIteration>>_vars: the condition of the while loop
IterationEnabled == pc = "loop" /\ lanes_to_analyze # {}

\* the loop of __analyze_map goes on while it can, and the call returns when the
\* loop has ended: the analysis is one sequential call. The two conditions are weak
\* fairness of AnalyzeMapReturn and of AnalyzeMapIteration, the latter written out
\* with IterationEnabled for its ENABLED
SpecLive ==
    /\ InitLive /\ [][NextLive]_vars
    /\ WF_vars(AnalyzeMapReturn)
    /\ ([]<>(~IterationEnabled) \/ []<><<AnalyzeMapIteration>>_vars)

\* every lane graph with at most MaxGeoContacts contacts, a straight first lane
\* and bent other lanes
InitCurve ==
    /\ laneType \in [LaneIds -> LaneTypes]
    /\ \E C \in ContactSets(MaxGeoContacts) :
         contactLanes = [l \in LaneIds |-> ContactList(l, C)]
    /\ layout = "mixed"
    /\ InitRasterizer
    /\ NoSections
    /\ NoComponents

SpecCurve == InitCurve /\ [][Next]_vars

\* every lane graph with at most MaxQueryContacts contacts, in every layout
InitQuery ==
    /\ laneType \in [LaneIds -> LaneTypes]
    /\ \E C \in ContactSets(MaxQueryContacts) :
         contactLanes = [l \in LaneIds |-> ContactList(l, C)]
    /\ layout \in Layouts
    /\ InitRasterizer
    /\ NoSections
    /\ NoComponents

NextQuery ==
    \/ AnalyzeMapCall
    \/ AnalyzeMapIteration
    \/ AnalyzeMapReturn
    \/ CalculateScenarioBlocks
    \/ GetMostProbableBlock
    \/ GetBlockForLane
    \/ GetBlocks
    \/ AnalyzeMapInitFails

SpecQuery == InitQuery /\ [][NextQuery]_vars

\* the maps on which get_actors_in_block is called
InitActors ==
    /\ laneType \in [LaneIds -> {"NORMAL", "INTERSECTION"}]
    /\ \E C \in ContactSets(MaxQueryContacts) :
         contactLanes = [l \in LaneIds |-> ContactList(l, C)]
    /\ layout \in Layouts
    /\ InitRasterizer
    /\ NoSections
    /\ NoComponents

\* the caller is one thread: it starts no analysis while its query is running
NextActors ==
    \/ block_query.outcome # "pending" /\ AnalyzeMapCall
    \/ AnalyzeMapIteration
    \/ AnalyzeMapReturn
    \/ GetActorsInBlockCall
    \/ GetActorsInBlockIteration
    \/ GetActorsInBlockReturn

SpecActors == InitActors /\ [][NextActors]_vars

\* the monitor of a stopped vehicle: the test is built, then ticked
NextStopped ==
    \/ VehicleStoppedTestInit
    \/ Update

\* no map is needed to monitor the vehicle
InitStopped ==
    /\ laneType = [l \in LaneIds |-> "NORMAL"]
    /\ contactLanes = [l \in LaneIds |-> <<>>]
    /\ layout = "row"
    /\ InitRasterizer
    /\ NoSections
    /\ NoComponents

SpecStopped == InitStopped /\ [][NextStopped]_vars

\* two distinct lanes of one block; the map of the rasterizer plays no part
InitSections ==
    /\ laneType = [l \in LaneIds |-> "NORMAL"]
    /\ contactLanes = [l \in LaneIds |-> <<>>]
    /\ layout = "row"
    /\ InitRasterizer
    /\ \E a, b \in DataLanes :
         /\ a.ad_map_lane_id # b.ad_map_lane_id
         /\ lane_pair = <<a, b>>
    /\ sections = <<NotBuilt, NotBuilt>>
    /\ helper_call = NoHelperCall
    /\ NoComponents
    /\ static_block = NoStaticBlock

NextSections == BuildCriticalSection

SpecSections == InitSections /\ [][NextSections]_vars

\* a MapHelper on one fixed map; the rasterizer plays no part
InitHelper ==
    /\ laneType = [l \in LaneIds |-> "NORMAL"]
    /\ contactLanes = [l \in LaneIds |-> <<>>]
    /\ layout = "row"
    /\ InitRasterizer
    /\ NoSections
    /\ NoComponents

\* two lanes with their midpoints, before the call
InitContact ==
    /\ laneType = [l \in LaneIds |-> "NORMAL"]
    /\ contactLanes = [l \in LaneIds |-> <<>>]
    /\ layout = "row"
    /\ InitRasterizer
    /\ lane_pair = <<>>
    /\ sections = <<>>
    /\ static_block = NoStaticBlock
    /\ NoComponents
    /\ \E m1, m2 \in MidpointLists :
         /\ NoRepeat(m1) /\ NoRepeat(m2)
         /\ helper_call = HelperCall("lanes", <<m1, m2>>, None)

NextContact == GetContactPointForLanes

SpecContact == InitContact /\ [][NextContact]_vars

NextIntersect == GetIntersect

\* a block with its data lanes, before the call
InitStatic ==
    /\ laneType = [l \in LaneIds |-> "NORMAL"]
    /\ contactLanes = [l \in LaneIds |-> <<>>]
    /\ layout = "row"
    /\ InitRasterizer
    /\ lane_pair = <<>>
    /\ sections = <<>>
    /\ helper_call = NoHelperCall
    /\ NoComponents
    /\ \E lanes \in StaticLaneLists :
         static_block = [NoStaticBlock EXCEPT !.data_lanes = lanes]

NextStatic ==
    \/ GetDataStaticBlockCall
    \/ StaticBlockIteration
    \/ GetDataStaticBlockReturn

SpecStatic == InitStatic /\ [][NextStatic]_vars

SpecIntersect == InitHelper /\ [][NextIntersect]_vars

\* a list of blocks, before the call; the rasterizer's map plays no part
InitExecutor ==
    /\ laneType = [l \in LaneIds |-> "NORMAL"]
    /\ contactLanes = [l \in LaneIds |-> <<>>]
    /\ layout = "row"
    /\ InitRasterizer
    /\ NoSections
    /\ \E blocks \in BlockLists :
         executor = [NoExecutor EXCEPT !.all_blocks = blocks]
    /\ noise_gen = NoNoise
    /\ block_query = NoBlockQuery
    /\ stopped_test = NoStoppedTest

NextExecutor ==
    \/ GetStaticMapInformationCall
    \/ Submit
    \/ ExecutorExit
    \/ ExecutorJoined
    \/ WorkerStart
    \/ WorkerFinish
    \/ Collect
    \/ GetStaticMapInformationReturn

SpecExecutor == InitExecutor /\ [][NextExecutor]_vars

\* a list of actors, before a call of the noise generator
InitNoise ==
    /\ laneType = [l \in LaneIds |-> "NORMAL"]
    /\ contactLanes = [l \in LaneIds |-> <<>>]
    /\ layout = "row"
    /\ InitRasterizer
    /\ NoSections
    /\ executor = NoExecutor
    /\ \E actors \in ActorLists : noise_gen = [NoNoise EXCEPT !.actors = actors]
    /\ block_query = NoBlockQuery
    /\ stopped_test = NoStoppedTest

NextNoise == AddNoise

SpecNoise == InitNoise /\ [][NextNoise]_vars

\* no actor or one actor, before a call of apply_normal_noise
InitApply ==
    /\ laneType = [l \in LaneIds |-> "NORMAL"]
    /\ contactLanes = [l \in LaneIds |-> <<>>]
    /\ layout = "row"
    /\ InitRasterizer
    /\ NoSections
    /\ executor = NoExecutor
    /\ \E actors \in {a \in ActorLists : Len(a) <= 1} :
         noise_gen = [NoNoise EXCEPT !.actors = actors]
    /\ block_query = NoBlockQuery
    /\ stopped_test = NoStoppedTest

NextApply ==
    \/ ApplyNormalNoiseCall
    \/ ApplyNormalNoiseStage
    \/ ApplyNormalNoiseReturn

SpecApply == InitApply /\ [][NextApply]_vars

---------------------------------------------------------------------------
(* Notions the properties are stated in; they read the lane graph and the  *)
(* stored list only                                                        *)

\* an analyze call has returned and none is running
Done == pc = "idle" /\ ~scenario_blocks.none

Blocks == scenario_blocks.v

Members(seg) == SeqRange(seg.lanes)

\* the set of member-id-sets of a list of segments
MemberSets(list) == {Members(list[i]) : i \in 1..Len(list)}

\* the indices of the stored segments that list lane l
SegmentsOf(l) == {i \in 1..Len(Blocks) : l \in Members(Blocks[i])}

Placed(l) == SegmentsOf(l) # {}

SameSegment(a, b) == SegmentsOf(a) \cap SegmentsOf(b) # {}

ListedOnce(seg) ==
    \A i, j \in 1..Len(seg.lanes) : seg.lanes[i] = seg.lanes[j] => i = j

\* lane a has a Successor or Predecessor contact to b whose types include LaneContinuation
ContinuationContact(a, b) ==
    \E i \in 1..Len(contactLanes[a]) :
        /\ contactLanes[a][i].toLane = b
        /\ contactLanes[a][i].location \in {"SUCCESSOR", "PREDECESSOR"}
        /\ "LANE_CONTINUATION" \in contactLanes[a][i].types

\* lane a has a Left, Right or Overlap contact to b
AdjacencyContact(a, b) ==
    \E i \in 1..Len(contactLanes[a]) :
        /\ contactLanes[a][i].toLane = b
        /\ contactLanes[a][i].location \in {"LEFT", "RIGHT", "OVERLAP"}

\* exactly one of the two lanes is of type Intersection
CrossesIntersection(a, b) == (laneType[a] = "INTERSECTION") # (laneType[b] = "INTERSECTION")

ContinuationTyped(a) == laneType[a] \in {"NORMAL", "EMERGENCY", "MULTI", "OVERTAKING"}

RECURSIVE Reach(_, _)
\* the lanes reachable from the lanes S along the pairs of R
Reach(S, R) ==
    LET N == S \cup {p[2] : p \in {q \in R : q[1] \in S}}
    IN IF N = S THEN S ELSE Reach(N, R)

\* the seed lane: the first id of the provider's lane list
Seed == getLanes[1]

\* every Successor/Predecessor-LaneContinuation or Left/Right/Overlap relation
AllRelations ==
    {p \in LaneIds \X LaneIds : ContinuationContact(p[1], p[2]) \/ AdjacencyContact(p[1], p[2])}

\* the relations the traversal follows: an adjacency, a continuation across an
\* intersection boundary, a continuation that starts at a continuation-typed lane
FollowedRelations ==
    {p \in LaneIds \X LaneIds :
        \/ AdjacencyContact(p[1], p[2])
        \/ /\ ContinuationContact(p[1], p[2])
           /\ CrossesIntersection(p[1], p[2]) \/ ContinuationTyped(p[1])}

NoLaneTwice ==
    /\ \A l \in LaneIds : Cardinality(SegmentsOf(l)) <= 1
    /\ \A i \in 1..Len(Blocks) : ListedOnce(Blocks[i])

---------------------------------------------------------------------------
(* Properties of the segmentation *)

\* C1 as stated: after discover_blocks every lane reachable from the seed through
\* Successor/Predecessor-LaneContinuation or Left/Right/Overlap relations is in
\* exactly one Segment and listed once.
C1_AllReachablePartitioned ==
    Done => /\ NoLaneTwice
            /\ \A l \in Reach({Seed}, AllRelations) : Cardinality(SegmentsOf(l)) = 1

\* C1 amended: no lane is in two Segments or listed twice, and every lane reachable
\* from the seed through the relations the traversal follows (adjacency; continuation
\* across an intersection boundary; continuation from a continuation-typed lane) is
\* in exactly one Segment.
C1_FollowedPartitioned ==
    Done => /\ NoLaneTwice
            /\ \A l \in Reach({Seed}, FollowedRelations) : Cardinality(SegmentsOf(l)) = 1

\* C1 witness: a finished run on a graph where three lanes are reached, over a
\* boundary and by a merge, and another continuation is not followed
C1_Witness ==
    /\ Done
    /\ Reach({Seed}, FollowedRelations) = LaneIds
    /\ Len(Blocks) = 2
    /\ \E a, b \in LaneIds : ContinuationContact(a, b) /\ CrossesIntersection(a, b)

\* C2 as stated: the member sets are pairwise disjoint and cover every
\* continuation-typed lane of the provider.
C2_CoversAllContinuationLanes ==
    Done => /\ \A l \in LaneIds : Cardinality(SegmentsOf(l)) <= 1
            /\ \A l \in LaneIds : ContinuationTyped(l) => Placed(l)

\* C3 as stated, for the pairs that were placed: an Intersection lane and a
\* continuation-typed lane joined by a Successor/Predecessor LaneContinuation contact
\* are never members of the same Segment.
C3_BoundaryAlwaysSplits ==
    Done => \A a, b \in LaneIds :
              ( /\ ContinuationContact(a, b)
                /\ CrossesIntersection(a, b)
                /\ ContinuationTyped(a) \/ ContinuationTyped(b)
                /\ Placed(a) /\ Placed(b) )
              => ~SameSegment(a, b)

\* a Left/Right/Overlap contact joins an Intersection lane and another lane of segment i
MixedAdjacencyIn(i) ==
    \E x, y \in Members(Blocks[i]) : AdjacencyContact(x, y) /\ CrossesIntersection(x, y)

\* C3 amended: for such a pair, B is placed whenever A is, and the two are in the same
\* Segment only if that Segment holds an Intersection lane and another lane joined by
\* a Left/Right/Overlap contact.
C3_BoundarySplitsUnlessAdjacent ==
    Done => \A a, b \in LaneIds :
              ( /\ ContinuationContact(a, b)
                /\ CrossesIntersection(a, b)
                /\ ContinuationTyped(a) \/ ContinuationTyped(b) )
              => /\ Placed(a) => Placed(b)
                 /\ \A i \in SegmentsOf(a) \cap SegmentsOf(b) : MixedAdjacencyIn(i)

\* C3 witness: a boundary pair placed in two different Segments
C3_Witness ==
    /\ Done
    /\ \E a, b \in LaneIds :
         /\ ContinuationContact(a, b)
         /\ CrossesIntersection(a, b)
         /\ ContinuationTyped(a) \/ ContinuationTyped(b)
         /\ Placed(a) /\ Placed(b) /\ ~SameSegment(a, b)

\* C4 as stated: two placed Normal lanes joined by a Successor/Predecessor
\* LaneContinuation contact (directed, possibly not mirrored) are in the same Segment.
C4_NormalContinuationSameSegment ==
    Done => \A a, b \in LaneIds :
              ( /\ laneType[a] = "NORMAL" /\ laneType[b] = "NORMAL"
                /\ Placed(a) /\ Placed(b)
                /\ ContinuationContact(a, b) )
              => SameSegment(a, b)

\* the points of both edges of a lane
EdgePoints(l) == SeqRange(EdgeLeft(l)) \cup SeqRange(EdgeRight(l))

InBox(p, seg) ==
    /\ seg.lower_bound.latitude <= p.latitude /\ p.latitude <= seg.higher_bound.latitude
    /\ seg.lower_bound.longitude <= p.longitude /\ p.longitude <= seg.higher_bound.longitude
    /\ seg.lower_bound.altitude <= p.altitude /\ p.altitude <= seg.higher_bound.altitude

BoxHoldsMembers(seg) == \A l \in Members(seg) : \A p \in EdgePoints(l) : InBox(p, seg)

\* C5: every edge point of every member lane of every Segment lies inside the
\* Segment's box, in latitude, longitude and altitude.
C5_BoxContainsMemberEdges ==
    /\ \A i \in 1..Len(segments) : BoxHoldsMembers(segments[i])
    /\ \A i \in 1..Len(Blocks) : BoxHoldsMembers(Blocks[i])

\* C5 witness: a stored Segment of three lanes, one merged over a continuation and
\* one over an adjacency, whose lanes have different boxes
C5_Witness ==
    /\ Done
    /\ layout = "bend"
    /\ \E i \in 1..Len(Blocks) :
         /\ Members(Blocks[i]) = LaneIds
         /\ \E a, b \in LaneIds : ContinuationContact(a, b)
         /\ \E a, b \in LaneIds : AdjacencyContact(a, b)

\* C6 as stated: a further run on the unchanged lane graph ends with the same set of
\* member-id-sets as the run before it (segments is the list the running call is
\* about to return, scenario_blocks the list the call before it returned).
C6_RerunSamePartition ==
    (pc = "loop" /\ lanes_to_analyze = {} /\ ~scenario_blocks.none)
        => MemberSets(segments) = MemberSets(Blocks)


\* the built critical section of an argument order, where the call returned one
Section(order) == sections[order].section.v

HasSection(order) ==
    /\ sections # <<>>
    /\ sections[order].built
    /\ ~sections[order].section.none

\* the lane of the pair with this ad_map_lane_id
LaneOf(id) == CHOOSE l \in SeqRange(lane_pair) : l.ad_map_lane_id = id

\* lane 1 of the section is a lane of the pair whose road id is not above the other's
SmallerRoadFirst(order) ==
    /\ Section(order).road_id_1 = LaneOf(Section(order).ad_map_lane_id_1).road_id
    /\ Section(order).road_id_1 <= Section(order).road_id_2

\* C7 as stated: the critical sections built for (a, b) and for (b, a) have the same
\* id, and lane 1 of both is the lane with the smaller road id, for every pair of
\* distinct lanes with a contact point, two lanes of one road included.
C7_SameIdInBothOrders ==
    (HasSection(1) /\ HasSection(2))
        => /\ Section(1).id = Section(2).id
           /\ SmallerRoadFirst(1) /\ SmallerRoadFirst(2)
           /\ Section(1).ad_map_lane_id_1 = Section(2).ad_map_lane_id_1

\* the contact offset the call of this order passed for the lane with this id
OffsetOf(order, id) ==
    IF sections[order].lane_1 = id THEN sections[order].distance_lane_1
    ELSE sections[order].distance_lane_2

\* the window [start, end] is the one of this lane: offset d, the lane's length
WindowOf(order, id, start, end) ==
    LET d == OffsetOf(order, id)
        length == LaneOf(id).lane_length
    IN /\ start = (IF d - 3 > 0 THEN d - 3 ELSE 0)
       /\ end = (IF d + 3 < length THEN d + 3 ELSE length)
       /\ (0 <= d /\ d <= length) => (0 <= start /\ start <= end /\ end <= length)
       /\ (length = 20 /\ d = 10) => (start = 7 /\ end = 13)
       /\ (length = 15 /\ d = 5) => (start = 2 /\ end = 8)

\* C8: in either argument order, the window stored for each of the two lanes of a
\* critical section is [max(0, d - 3), min(length, d + 3)] for that same lane's
\* contact offset d and length; for 0 <= d <= length it satisfies
\* 0 <= start <= end <= length; length 20 with d = 10 gives [7,13] and length 15
\* with d = 5 gives [2,8].
C8_WindowOfSameLane ==
    \A order \in {1, 2} :
        HasSection(order) =>
            /\ WindowOf(order, Section(order).ad_map_lane_id_1,
                        Section(order).start_pos_1, Section(order).end_pos_1)
            /\ WindowOf(order, Section(order).ad_map_lane_id_2,
                        Section(order).start_pos_2, Section(order).end_pos_2)
            /\ Section(order).ad_map_lane_id_1 # Section(order).ad_map_lane_id_2

\* C8 witness: both orders built for L1 (length 20, d = 10) and L2 (length 15,
\* d = 5), L2 on the smaller road, so that one of the orders swaps the lanes
C8_Witness ==
    /\ HasSection(1) /\ HasSection(2)
    /\ lane_pair[1].lane_length = 20 /\ lane_pair[2].lane_length = 15
    /\ lane_pair[2].road_id < lane_pair[1].road_id
    /\ \A order \in {1, 2} :
         /\ OffsetOf(order, lane_pair[1].ad_map_lane_id) = 10
         /\ OffsetOf(order, lane_pair[2].ad_map_lane_id) = 5
         /\ Section(order).ad_map_lane_id_1 = lane_pair[2].ad_map_lane_id
         /\ Section(order).start_pos_1 = 2 /\ Section(order).end_pos_1 = 8
         /\ Section(order).start_pos_2 = 7 /\ Section(order).end_pos_2 = 13

\* the box of the Segment contains the point, in latitude and longitude
BoxContains(seg, p) ==
    /\ seg.lower_bound.latitude <= p.latitude /\ p.latitude <= seg.higher_bound.latitude
    /\ seg.lower_bound.longitude <= p.longitude /\ p.longitude <= seg.higher_bound.longitude

\* the stored Segments whose box contains the argument of the last call
Containing == {i \in 1..Len(Blocks) : BoxContains(Blocks[i], last_call.arg)}

BestBlockCalled == ~scenario_blocks.none /\ last_call.op = "get_most_probable_block"

\* C9: when exactly one stored Segment's box contains the query point,
\* get_most_probable_block returns that Segment and makes no call on the map
\* matcher, whatever acceptable_delta and perfect_lane_match are.
C9_SingleCandidateNoMatcher ==
    (BestBlockCalled /\ Cardinality(Containing) = 1)
        => /\ last_call.outcome = "returned"
           /\ ~last_call.value.none
           /\ \A i \in Containing : last_call.value.v = Blocks[i]
           /\ last_call.matcher_calls = 0

\* C9 witness: the call returned the one containing Segment, a curved one on no
\* edge point of which the position lies, out of a list of several Segments
C9_Witness ==
    /\ BestBlockCalled /\ Cardinality(Containing) = 1
    /\ Len(Blocks) > 1
    /\ last_call.outcome = "returned" /\ ~last_call.value.none
    /\ last_call.value.v.is_curve
    /\ \A l \in Members(last_call.value.v) : last_call.arg \notin EdgePoints(l)

BlockForLaneCalled == ~scenario_blocks.none /\ last_call.op = "get_block_for_lane"

\* the stored Segments that list the lane id the last call asked for
Listing == {i \in 1..Len(Blocks) : last_call.arg.latitude \in Members(Blocks[i])}

\* C10: once analyze_map has completed, get_most_probable_block for a point in no
\* Segment's box and get_block_for_lane for a lane id in no Segment return None and
\* raise nothing.
C10_NoMatchIsNone ==
    /\ (BestBlockCalled /\ Containing = {})
         => (last_call.outcome = "returned" /\ last_call.value.none)
    /\ (BlockForLaneCalled /\ Listing = {})
         => (last_call.outcome = "returned" /\ last_call.value.none)

\* C10 witness: a point outside the boxes of several stored Segments, answered
\* with None
C10_Witness ==
    /\ BestBlockCalled /\ Containing = {}
    /\ Len(Blocks) > 1
    /\ last_call.outcome = "returned" /\ last_call.value.none


\* the query operations of the rasterizer
QueryOps ==
    {"calculate_scenario_blocks", "get_most_probable_block", "get_block_for_lane", "blocks"}

\* C11 as stated: while no analysis has completed, every query operation
\* (calculate_scenario_blocks, get_most_probable_block, get_block_for_lane and the
\* blocks accessor) raises; none returns.
C11_QueriesFailLoudly ==
    (scenario_blocks.none /\ last_call.op \in QueryOps) => last_call.outcome = "raised"


\* C12: a call of an analyze entry point whose map initialization fails raises, in
\* the idle state and so before any lane is traversed, returns no list, and leaves
\* the stored list and the traversal state as they were.
C12_InitFailureLeavesList ==
    [][last_call'.op \in AnalyzeEntryPoints
         => /\ pc = "idle" /\ pc' = "idle"
            /\ last_call'.outcome = "raised"
            /\ last_call'.value.none
            /\ scenario_blocks' = scenario_blocks
            /\ analyzed_lanes' = analyzed_lanes
            /\ lanes_to_analyze' = lanes_to_analyze
            /\ segments' = segments]_vars

\* C12 witness: an entry point raised on a rasterizer that holds the list of
\* several Segments of an earlier analysis
C12_Witness ==
    /\ last_call.op \in AnalyzeEntryPoints
    /\ last_call.outcome = "raised"
    /\ ~scenario_blocks.none
    /\ Len(Blocks) > 1


\* C13: calculate_scenario_blocks, get_most_probable_block and get_block_for_lane
\* (and the blocks accessor) leave the stored Segment list as it is: its length, its
\* order and every Segment's bounds, curve flag, lanes and id; the list changes only
\* when an analysis returns.
C13_QueriesLeaveListUnchanged ==
    [][/\ last_call'.op \in QueryOps => scenario_blocks' = scenario_blocks
       /\ scenario_blocks' # scenario_blocks => last_call'.op = "analyze_map"]_vars

\* C13 witness: the list of several Segments is stored and get_most_probable_block
\* has returned one of them after asking the map matcher
C13_Witness ==
    /\ BestBlockCalled
    /\ Len(Blocks) > 1
    /\ last_call.outcome = "returned" /\ ~last_call.value.none
    /\ last_call.matcher_calls > 0
    /\ \E i \in 1..Len(Blocks) : Blocks[i] = last_call.value.v


\* the stored Segments whose box contains the argument of the last call, in the
\* order of the list
ContainingSeq ==
    LET Holds(b) == BoxContains(b, last_call.arg)
    IN SelectSeq(Blocks, Holds)

\* get_most_probable_block returned after it found two or more containing Segments
TieBreakCalled ==
    /\ BestBlockCalled
    /\ last_call.outcome = "returned"
    /\ Len(ContainingSeq) >= 2

\* the lanes of the containing Segments in scan order, and the Segment of each
ScanOrder == FlatLanes(ContainingSeq)

OwnerOf(l) == CHOOSE i \in 1..Len(ContainingSeq) : l \in Members(ContainingSeq[i])

\* the lanes the map matcher was asked about with an answer d, 0 <= d <= acceptable_delta
WithinDelta ==
    {j \in 1..Len(ScanOrder) :
        /\ ScanOrder[j] \in DOMAIN last_call.dist
        /\ last_call.dist[ScanOrder[j]] <= last_call.acceptable_delta}

\* C14 as stated: with two or more containing Segments, the Segment of the first
\* lane in scan order whose distance d is within acceptable_delta of zero
\* (0 <= d <= acceptable_delta) is returned at once, whatever the later lanes report.
C14_FirstWithinDeltaReturned ==
    (TieBreakCalled /\ WithinDelta # {})
        => LET first == CHOOSE j \in WithinDelta : \A k \in WithinDelta : j <= k
           IN /\ ~last_call.value.none
              /\ last_call.value.v = ContainingSeq[OwnerOf(ScanOrder[first])]
              /\ last_call.matcher_calls = first + 1

\* no lane of a containing Segment was reported at distance 0 or acceptable_delta:
\* every lane was asked about and none ended the scan
NoDirectMatch ==
    \A j \in 1..Len(ScanOrder) :
        /\ ScanOrder[j] \in DOMAIN last_call.dist
        /\ last_call.dist[ScanOrder[j]] \notin {0, last_call.acceptable_delta}

\* the smallest distance reported for a lane of the Segment
MinDistance(seg) ==
    CHOOSE d \in {last_call.dist[l] : l \in Members(seg)} :
        \A l \in Members(seg) : d <= last_call.dist[l]

\* C15: with two or more containing Segments and no lane that ends the scan,
\* get_most_probable_block returns None if perfect_lane_match is set; otherwise it
\* returns a containing Segment whose minimum lane distance is smallest, the first
\* such Segment of the list on ties.
C15_FallbackIsFirstMinimum ==
    (TieBreakCalled /\ NoDirectMatch)
        => IF last_call.perfect_lane_match THEN last_call.value.none
           ELSE /\ ~last_call.value.none
                /\ \E i \in 1..Len(ContainingSeq) :
                     /\ last_call.value.v = ContainingSeq[i]
                     /\ \A k \in 1..Len(ContainingSeq) :
                          MinDistance(ContainingSeq[i]) <= MinDistance(ContainingSeq[k])
                     /\ \A k \in 1..(i - 1) :
                          MinDistance(ContainingSeq[k]) > MinDistance(ContainingSeq[i])

\* C15 witness: two containing Segments, no direct match, the second has the
\* smaller minimum distance and is returned
C15_Witness ==
    /\ TieBreakCalled /\ NoDirectMatch
    /\ ~last_call.perfect_lane_match
    /\ Len(ContainingSeq) = 2
    /\ MinDistance(ContainingSeq[2]) < MinDistance(ContainingSeq[1])
    /\ last_call.value = Some(ContainingSeq[2])


\* C20: for a position in the box of at least one stored Segment,
\* get_most_probable_block with perfect_lane_match false returns a Segment, one of
\* those containing the position, and never None, whatever the map matcher reports.
C20_DefaultCallFindsSegment ==
    (BestBlockCalled /\ Containing # {} /\ ~last_call.perfect_lane_match)
        => /\ last_call.outcome = "returned"
           /\ ~last_call.value.none
           /\ \E i \in Containing : last_call.value.v = Blocks[i]

\* C20 witness: two Segments contain the position, the map matcher reports no lane
\* at distance 0 or acceptable_delta, and a Segment is returned
C20_Witness ==
    /\ TieBreakCalled /\ NoDirectMatch
    /\ ~last_call.perfect_lane_match
    /\ ~last_call.value.none
    /\ last_call.matcher_calls = Len(ScanOrder) + 1


DirectionCross(a, b, c, d) == (b.x - a.x) * (d.y - c.y) - (b.y - a.y) * (d.x - c.x)

\* the location q (xn / d, yn / d) lies on the infinite line through a and b
OnLine(q, a, b) ==
    (q.xn - a.x * q.d) * (b.y - a.y) = (q.yn - a.y * q.d) * (b.x - a.x)

IntersectCalled == helper_call.op = "get_intersect"

\* C17: get_intersect(p1, p2, p3, p4) returns None exactly when the lines through
\* p1, p2 and through p3, p4 are parallel (the z-component of their cross product is
\* zero); otherwise it returns a point that lies on both infinite lines; for
\* (0,0)-(2,2) and (0,2)-(2,0) it returns (1,1).
C17_IntersectOfLines ==
    IntersectCalled =>
        LET p == helper_call.args
            q == helper_call.value
        IN /\ q.none <=> DirectionCross(p[1], p[2], p[3], p[4]) = 0
           /\ ~q.none => /\ q.v.d > 0
                         /\ OnLine(q.v, p[1], p[2])
                         /\ OnLine(q.v, p[3], p[4])
           /\ p = <<DataLocation(0, 0), DataLocation(2, 2), DataLocation(0, 2), DataLocation(2, 0)>>
                => q = Some([xn |-> 1, yn |-> 1, d |-> 1])

\* C17 witness: the lines cross in a point whose coordinates are not whole
C17_Witness ==
    /\ IntersectCalled
    /\ ~helper_call.value.none
    /\ helper_call.value.v.d > 1
    /\ helper_call.value.v.xn # helper_call.value.v.yn


\* on which side of the line through a and b the location c lies (0: on the line)
Orientation(a, b, c) == (b.x - a.x) * (c.y - a.y) - (b.y - a.y) * (c.x - a.x)

\* the lines through a, b and through c, d intersect, and the point of intersection
\* lies on both finite segments
SegmentsCross(a, b, c, d) ==
    /\ DirectionCross(a, b, c, d) # 0
    /\ Orientation(a, b, c) * Orientation(a, b, d) <= 0
    /\ Orientation(c, d, a) * Orientation(c, d, b) <= 0

ContactCalled == helper_call.op = "get_contact_point_for_lanes"

\* the pairs (i, j) of consecutive-point segments of the two lanes that cross
CrossingPairs ==
    LET m1 == helper_call.args[1]
        m2 == helper_call.args[2]
    IN {p \in (1..(Len(m1) - 1)) \X (1..(Len(m2) - 1)) :
          SegmentsCross(m1[p[1]], m1[p[1] + 1], m2[p[2]], m2[p[2] + 1])}

\* the first of them in nested order: outer lane 1, inner lane 2
FirstCrossingPair ==
    CHOOSE p \in CrossingPairs :
        \A q \in CrossingPairs : p[1] < q[1] \/ (p[1] = q[1] /\ p[2] <= q[2])

\* C16 as stated: get_contact_point_for_lanes returns the intersection of the first
\* pair of segments, in nested order, whose lines intersect in a point on both
\* segments, and None only when no pair does; a parallel pair visited before does
\* not hide a crossing pair.
C16_FirstCrossingPairReturned ==
    ContactCalled =>
        IF CrossingPairs = {} THEN helper_call.value.none
        ELSE LET m1 == helper_call.args[1]
                 m2 == helper_call.args[2]
                 p == FirstCrossingPair
             IN helper_call.value =
                    get_intersect(m1[p[1]], m1[p[1] + 1], m2[p[2]], m2[p[2] + 1])


\* the two lanes of a critical section, as a set of ad_map_lane_ids
LanesOfSection(cs) == {cs.ad_map_lane_id_1, cs.ad_map_lane_id_2}

\* C18: the critical-section list of a block holds no section of a lane with
\* itself and at most one section per unordered pair of member lanes, and is_for
\* gives the same answer for a pair of lanes in either order.
C18_OneSectionPerPair ==
    LET cs == static_block.critical_sections
        ids == {static_block.data_lanes[k].ad_map_lane_id : k \in 1..Len(static_block.data_lanes)}
    IN /\ \A i \in 1..Len(cs) :
            /\ cs[i].ad_map_lane_id_1 # cs[i].ad_map_lane_id_2
            /\ LanesOfSection(cs[i]) \subseteq ids
            /\ \A a, b \in SeqRange(static_block.data_lanes) :
                 is_for(cs[i], a, b) <=> is_for(cs[i], b, a)
       /\ \A i, j \in 1..Len(cs) : i # j => LanesOfSection(cs[i]) # LanesOfSection(cs[j])

\* C18 witness: the call returned for three lanes with a section for each of the
\* three pairs, one of them stored with its lanes exchanged
C18_Witness ==
    /\ static_block.pc = "returned"
    /\ Len(static_block.data_lanes) = 3
    /\ Len(static_block.critical_sections) = 3
    /\ \E i \in 1..3 :
         static_block.critical_sections[i].ad_map_lane_id_1 = static_block.data_lanes[3].ad_map_lane_id

---------------------------------------------------------------------------
(* Properties of the stored list over several analyses *)

\* the analyze call returns in this step
AnalyzeReturns == pc = "loop" /\ pc' = "idle"

\* every Segment of the list was built from lanes this analysis visited, and every
\* lane this analysis visited is in exactly one of them
BuiltByThisAnalysis(list, visited) ==
    /\ \A i \in 1..Len(list) : SeqRange(list[i].lanes) \subseteq visited
    /\ \A l \in visited : Cardinality({i \in 1..Len(list) : l \in SeqRange(list[i].lanes)}) = 1

\* C21: when an analyze call returns, the stored list is the list it returns and
\* holds only Segments built by that analysis (none of an earlier one); the stored
\* list changes at no other step; and the blocks accessor returns the stored list.
C21_BlocksAreLatestAnalysis ==
    [][/\ AnalyzeReturns =>
            /\ last_call'.op = "analyze_map" /\ last_call'.outcome = "returned"
            /\ scenario_blocks' = last_call'.value
            /\ ~scenario_blocks'.none
            /\ BuiltByThisAnalysis(scenario_blocks'.v, analyzed_lanes)
       /\ scenario_blocks' # scenario_blocks => AnalyzeReturns
       /\ (last_call'.op = "blocks" /\ ~scenario_blocks.none) =>
            /\ last_call'.outcome = "returned"
            /\ last_call'.value = scenario_blocks]_vars

\* C21 witness: a second analysis is about to return a list that differs from the
\* stored list of the first one
C21_Witness ==
    /\ pc = "loop"
    /\ lanes_to_analyze = {}
    /\ ~scenario_blocks.none
    /\ segments # <<>>
    /\ segments # scenario_blocks.v

---------------------------------------------------------------------------
(* Properties of the worker pool *)

\* how many entries of the list satisfy block id = id
InputsWithId(id) ==
    Cardinality({i \in 1..Len(executor.all_blocks) : executor.all_blocks[i].id = id})

ResultsWithId(list, id) == Cardinality({i \in 1..Len(list) : list[i].block_id = id})

\* the futures whose entry differs between this state and the next
FuturesChanged ==
    {i \in 1..Len(executor.future_pool) : executor'.future_pool[i] # executor.future_pool[i]}

\* this step is a step of a task: a future goes on to its next state
TaskStep == Len(executor'.future_pool) = Len(executor.future_pool) /\ FuturesChanged # {}

\* C22: there is one task per input block, at most 10 of them run at a time, the
\* call returns only when every task has finished, with exactly one static block
\* per input block that carries this block's id; and a step of a task changes the
\* future of this task only, to a value that depends on its own block only.
C22_PoolReturnsAllBlocks ==
    /\ [](/\ Cardinality(FuturesIn("running")) <= 10
          /\ Len(executor.future_pool) <= Len(executor.all_blocks)
          /\ \A i \in 1..Len(executor.future_pool) :
               executor.future_pool[i].block = executor.all_blocks[i]
          /\ executor.pc = "returned" =>
               /\ Len(executor.future_pool) = Len(executor.all_blocks)
               /\ FuturesIn("finished") = 1..Len(executor.future_pool)
               /\ Len(executor.value.v) = Len(executor.all_blocks)
               /\ \A i \in 1..Len(executor.all_blocks) :
                    ResultsWithId(executor.value.v, executor.all_blocks[i].id)
                        = InputsWithId(executor.all_blocks[i].id))
    /\ [][TaskStep =>
            /\ Cardinality(FuturesChanged) = 1
            /\ \A i \in FuturesChanged :
                 /\ executor' = [executor EXCEPT !.future_pool[i] = executor'.future_pool[i]]
                 /\ executor'.future_pool[i].block = executor.future_pool[i].block
                 /\ executor'.future_pool[i].state = "finished" =>
                      executor'.future_pool[i].result.v.block_id = executor.all_blocks[i].id]_vars

\* C22 witness: a call on more blocks than the pool has workers has returned
C22_Witness ==
    /\ executor.pc = "returned"
    /\ Len(executor.all_blocks) > 10
    /\ Len(executor.value.v) = Len(executor.all_blocks)

---------------------------------------------------------------------------
(* Properties of the noise generator *)

\* an add_*_noise function has been called
AddNoiseCalled == noise_gen.op \in NoiseTypes

\* the noise is empty: None, without rows, or without columns
EmptyNoise(noise) == noise.none \/ Len(noise.v) = 0 \/ Len(noise.v[1]) = 0

\* the row of noise for the i-th actor with the missing components as zero
PaddedRow(noise, i) ==
    [k \in 1..3 |-> IF k <= Len(noise.v[i]) THEN noise.v[i][k] ELSE 0]

\* the i-th actor after noise of the type was added to it
ExpectedActor(type, actor, row) ==
    CASE type = "position"         -> [actor EXCEPT !.location = Noised(@, row)]
      [] type = "rotation"         -> [actor EXCEPT !.rotation = Turned(@, row)]
      [] type = "velocity"         -> [actor EXCEPT !.velocity = Noised(@, row)]
      [] type = "acceleration"     -> [actor EXCEPT !.acceleration = Noised(@, row)]
      [] type = "angular_velocity" -> [actor EXCEPT !.angular_velocity = Noised(@, row)]

\* C23 as stated: an add_*_noise call on a non-empty actor list raises ValueError
\* and changes no actor when the noise is empty or has more than 3 columns; with
\* one row per actor and 1 to 3 columns it returns and has added the noise with the
\* missing components as zero; on an empty actor list it returns without change.
C23_AddNoiseContract ==
    AddNoiseCalled =>
      LET actors == noise_gen.init_actors
          noise == noise_gen.noise
      IN /\ (Len(actors) > 0 /\ (EmptyNoise(noise) \/ Len(noise.v[1]) > 3)) =>
               /\ noise_gen.outcome = "raised"
               /\ noise_gen.actors = actors
         /\ (Len(actors) > 0 /\ ~EmptyNoise(noise) /\ Len(noise.v[1]) <= 3
                             /\ Len(noise.v) = Len(actors)) =>
               /\ noise_gen.outcome = "returned"
               /\ noise_gen.actors =
                    [i \in 1..Len(actors) |->
                        ExpectedActor(noise_gen.op, actors[i], PaddedRow(noise, i))]
         /\ Len(actors) = 0 =>
               /\ noise_gen.outcome = "returned"
               /\ noise_gen.actors = actors

\* apply_normal_noise has raised or returned
ApplyDone == noise_gen.op = "apply_normal_noise" /\ noise_gen.outcome # "pending"

\* C24 as stated: apply_normal_noise on a non-empty actor list with shape greater
\* than 3 raises ValueError whenever ALL_NOISE or any single type is selected, and
\* no attribute of any actor has been changed when it is raised.
C24_LargeShapeRaisesUnchanged ==
    (/\ ApplyDone
     /\ Len(noise_gen.init_actors) > 0
     /\ noise_gen.shape > 3
     /\ noise_gen.noise_type # {"NO_NOISE"}) =>
        /\ noise_gen.outcome = "raised"
        /\ noise_gen.actors = noise_gen.init_actors

---------------------------------------------------------------------------
(* Properties of the merge of adjacent lanes *)

\* C25 as stated: after the analysis, for every lane A placed in a Segment and
\* every Left, Right or Overlap contact of A to a lane B, B is a member of the
\* Segment of A, whatever the types of the lanes and of the contact are.
C25_AdjacentLanesShareSegment ==
    Done => \A a, b \in LaneIds :
              (Placed(a) /\ AdjacencyContact(a, b)) => SameSegment(a, b)

---------------------------------------------------------------------------
(* Properties of the curvature flag *)

\* the curvature result of a lane: the test is run for lanes of a driveable type
CurvatureResult(l) == laneType[l] \in DRIVEABLE_LANE_TYPES /\ determine_lane_curvature(l)

\* C26 as stated: the is_curve flag of a Segment is the disjunction of the
\* curvature results of its member lanes, whether a lane was merged through a
\* continuation or through a Left/Right/Overlap relation.
C26_CurveIsDisjunction ==
    Done => \A i \in 1..Len(Blocks) :
              Blocks[i].is_curve = (\E l \in Members(Blocks[i]) : CurvatureResult(l))

---------------------------------------------------------------------------
(* Termination of the analysis *)

\* an iteration of the loop of __analyze_map happens in this step
IterationStep == pc = "loop" /\ Len(segments') = Len(segments) + 1

\* the lanes __analyze_lane is entered for when the iteration pops lane_id
EnteredFor(lane_id) == analyze_lane(lane_id, analyzed_lanes).entered

\* a lane of the graph lies on a cycle of the relations the traversal follows
OnCycle(l) == l \in Reach({p[2] : p \in {q \in FollowedRelations : q[1] = l}}, FollowedRelations)

\* C27: every analyze call returns, also on graphs with cycles; whichever lane an
\* iteration pops, __analyze_lane is entered at most once per lane in it and for no
\* lane that was visited before, and the lanes entered are the lanes the iteration
\* adds to the visited set.
C27_AnalysisTerminates ==
    /\ (pc = "loop") ~> (pc = "idle")
    /\ [][IterationStep =>
            /\ \A lane_id \in lanes_to_analyze :
                 LET entered == EnteredFor(lane_id)
                 IN /\ \A i, j \in 1..Len(entered) : entered[i] = entered[j] => i = j
                    /\ SeqRange(entered) \cap analyzed_lanes = {}
            /\ \E lane_id \in lanes_to_analyze :
                 analyzed_lanes' = analyzed_lanes \cup SeqRange(EnteredFor(lane_id))]_vars

\* C27 witness: an analysis has returned on a graph whose seed lane lies on a cycle
\* through all three lanes
C27_Witness ==
    /\ Done
    /\ OnCycle(Seed)
    /\ Reach({Seed}, FollowedRelations) = LaneIds
    /\ \E i \in 1..Len(Blocks) : Members(Blocks[i]) = LaneIds


---------------------------------------------------------------------------
(* calculate_scenario_blocks with the curve sub-filter                     *)

CurveSubCalled ==
    /\ ~scenario_blocks.none
    /\ last_call.op = "calculate_scenario_blocks"
    /\ last_call.curve_sub_calculation

\* the position of the last call is at flat distance zero of an edge point of a
\* lane of the Segment: the same latitude and longitude
OnLanesOf(seg) ==
    \E l \in Members(seg) : \E p \in EdgePoints(l) :
        p.latitude = last_call.arg.latitude /\ p.longitude = last_call.arg.longitude

\* C28: calculate_scenario_blocks with curve_sub_calculation enabled returns every
\* Segment that holds the position and is not curved, returns a curved Segment
\* that holds it only if the minimal distance of the position to the edges of
\* its lanes is zero, and so returns a sub-list of the Segments that hold the
\* position.
C28_CurvedOnlyWhenOnLane ==
    CurveSubCalled
        => /\ last_call.outcome = "returned"
           /\ \A i \in 1..Len(ContainingSeq) :
                 ~ContainingSeq[i].is_curve
                    => \E j \in 1..Len(last_call.value.v) :
                          last_call.value.v[j] = ContainingSeq[i]
           /\ \A j \in 1..Len(last_call.value.v) :
                 /\ \E i \in 1..Len(ContainingSeq) : ContainingSeq[i] = last_call.value.v[j]
                 /\ last_call.value.v[j].is_curve => OnLanesOf(last_call.value.v[j])


---------------------------------------------------------------------------
(* get_actors_in_block                                                     *)

ActorsInBlockDone ==
    block_query.op = "get_actors_in_block" /\ block_query.outcome # "pending"

\* the actors whose block, found by lane or else as the most probable one, is the
\* given block
ActorsOfGivenBlock ==
    LET InGiven(actor) == block_query.found[actor.id].v.id = block_query.given.v.id
    IN SelectSeq(block_query.actors, InGiven)

\* C29: get_actors_in_block(block, actors) returns exactly the actors whose own
\* block (that of the actor's lane, else the most probable one) is the given
\* block, so no actor of another block; it raises ValueError for an actor for
\* which no block is found.
C29_OnlyActorsOfGivenBlock ==
    ActorsInBlockDone
        => IF \E i \in 1..Len(block_query.found) : block_query.found[i].none
           THEN block_query.outcome = "raised" /\ block_query.error = "ValueError"
           ELSE /\ block_query.outcome = "returned"
                /\ block_query.filtered_actors = ActorsOfGivenBlock


---------------------------------------------------------------------------
(* VehicleStoppedTest                                                      *)

Ticks == stopped_test.ticks

\* actual_value and the number of messages before the k-th tick
ValueBefore(k) == IF k = 1 THEN 0 ELSE Ticks[k - 1].actual_value

SentBefore(k) == IF k = 1 THEN 0 ELSE Ticks[k - 1].sent

\* the k-th tick recorded a stop violation
Recorded(k) == Ticks[k].actual_value # ValueBefore(k) \/ Ticks[k].sent # SentBefore(k)

\* the ticks before the k-th at which the vehicle was driving
DrivingBefore(k) == {j \in 1..(k - 1) : Ticks[j].actor_speed >= MIN_VELOCITY}

\* the first tick of the stop episode of the k-th tick: the one after the last
\* tick at which the vehicle was driving
EpisodeStart(k) == (CHOOSE j \in DrivingBefore(k) : \A i \in DrivingBefore(k) : i <= j) + 1

\* C30: over any sequence of update() ticks a stop violation is recorded, by
\* actual_value going up by one and one message being sent, only at a tick
\* below MIN_VELOCITY before which the vehicle has moved and has since stayed
\* below MIN_VELOCITY for at least MAX_IDLE_TIME, and at most once per stop
\* episode; update returns FAILURE only when terminate_on_failure is set.
C30_StopRecordedOncePerEpisode ==
    \A k \in 1..Len(Ticks) :
        /\ Recorded(k)
              => /\ Ticks[k].actual_value = ValueBefore(k) + 1
                 /\ Ticks[k].sent = SentBefore(k) + 1
                 /\ Ticks[k].actor_speed < MIN_VELOCITY
                 /\ DrivingBefore(k) # {}
                 /\ Ticks[k].time - Ticks[EpisodeStart(k)].time >= MAX_IDLE_TIME
                 /\ \A j \in EpisodeStart(k)..(k - 1) : ~Recorded(j)
        /\ Ticks[k].status = "FAILURE" => stopped_test.terminate_on_failure

\* C30 witness: two stop episodes were recorded, the second by a tick that
\* returned FAILURE, after a tick of the same episode that was too early
C30_Witness ==
    /\ Len(Ticks) = MaxTicks
    /\ stopped_test.actual_value = 2 /\ stopped_test.sent = 2
    /\ Recorded(MaxTicks) /\ Ticks[MaxTicks].status = "FAILURE"
    /\ EpisodeStart(MaxTicks) < MaxTicks
    /\ stopped_test.stopped_times = <<Ticks[2].time, Ticks[EpisodeStart(MaxTicks)].time>>

=============================================================================
